---- MODULE Spec2Model ----
(***************************************************************************)
(* Model of the ad-placement observer: the Detection Engine (AdsFinder),   *)
(* the Reconciliation Engine (ViewUpdater) and the relational store they    *)
(* share.  Each engine has its own specification over the same variables:   *)
(* SpecDetect drives AdsFinder's event handlers, SpecRecon drives           *)
(* ViewUpdater.performUpdate.  An action is one run of a handler between    *)
(* two await points of the JavaScript code (cooperative scheduling).        *)
(*                                                                          *)
(* Time is counted in ticks.  The sizes and durations of the program        *)
(* (10000 dedup keys, 100 cache entries, 5 min TTL, batches of 10, ...)     *)
(* are scaled down to the bounds below; each bound names the program field  *)
(* it scales.                                                               *)
(***************************************************************************)
EXTENDS Integers, Sequences, FiniteSets, TLC

(* ------------------------------ bounds -------------------------------- *)
\* events delivered by the platform client in one behaviour
MaxEvents == 2
\* handler invocations suspended at an await point at the same time
MaxTasks == 2
\* AdsFinder.maxProcessedMessages (10000 in the program)
maxProcessedMessages == 3
\* AdsFinder.maxCacheSize (100 in the program)
maxCacheSize == 2
\* AdsFinder.CACHE_TTL (5 minutes in the program), in ticks
CACHE_TTL == 1
\* AdsFinder.cleanupInterval (30 minutes in the program), in ticks
cleanupInterval == 2
\* ViewUpdater.batchSize (10 in the program)
batchSize == 2
\* ViewUpdater.requestDelay (1000 ms in the program), in ticks
requestDelay == 1
\* ViewUpdater.dialogsCacheTTL (30 hours in the program), in ticks
dialogsCacheTTL == 2
\* calls of performUpdate (timer ticks and direct calls) that arrive while no
\* run is in progress; the calls that arrive during a run are not bounded
MaxCalls == 1
\* the longest flood wait the platform asks for, in ticks
MaxFlood == 2
\* rows of pushList (placements) in the store
NumPlacements == 7
\* calls made to the Database object, the two that are under way when the
\* behaviour starts included
MaxRequests == 4
\* this.maxQueueSize of Database: 100 in the program
maxQueueSize == 2
\* the time in the queue after which a request is skipped, in ticks: 30000 ms
\* in the program
staleAfter == 1
\* this.maxHealthCheckFailures of Observer and of BaseService
maxHealthCheckFailures == 3
maxRestartAttempts == 5
\* this.maxRetries and this.retryDelay (ms) of Database
maxRetries == 3
retryDelay == 5000
\* calls of connect() made on one Database
MaxConnects == 3
\* interval callbacks of the engine in progress at the same time
MaxChains == 2
\* calls of BaseService.restart in one behaviour
MaxRestarts == 2
\* the cap of the streak counters
MaxStreak == 4

(* --------------------------- channel ids ------------------------------ *)
\* A channel id as the program sees it: the bare number, or the number
\* with the transport prefix "-100" in front.  n = 0 stands for null.
Bare(n) == [pfx |-> FALSE, n |-> n]
Pref(n) == [pfx |-> TRUE, n |-> n]
NoChan == Bare(0)

\* JavaScript truthiness of a channel id / message id
HasChan(c) == c.n # 0
OrChan(a, b) == IF HasChan(a) THEN a ELSE b
OrNum(a, b) == IF a # 0 THEN a ELSE b

\* cleanChannelId: String(id), with a leading "-100" stripped
cleanChannelId(c) == IF c.pfx THEN Bare(c.n) ELSE c

\* "-100" + mediaIdentifier (ViewUpdater.processRow)
AddPrefix(c) == Pref(c.n)

(* ------------------------- the placement registry ---------------------- *)
\* editedMessageIds column: NULL, a text that JSON.parse reads as an array,
\* or a text on which JSON.parse throws
NoEdit == [kind |-> "null", ids |-> <<>>]
EditArr(s) == [kind |-> "array", ids |-> s]
EditBad == [kind |-> "bad", ids |-> <<>>]

\* pushList joined with campaigns, contents and media: one record per
\* placement.  Placements 1..4 are the cases of the matching rules,
\* placements 6 and 7 are two placements of one content on channel 7777, the
\* first with an edited-message list that does not parse; every further
\* placement is a DETECTED placement on a channel of its own.
PushRow(p) ==
  CASE p = 1 -> [pushId |-> 1, media |-> Bare(7777), status |-> "DETECTED",
                 campStatus |-> "ON_GOING",
                 notForwardedChannelId |-> Bare(4441), notForwardedMessageId |-> 10,
                 baseContentChannelId |-> Pref(5551), baseContentMessageId |-> 900,
                 editedContentChannelId |-> NoChan, editedContentMessageIds |-> NoEdit]
    [] p = 2 -> [pushId |-> 2, media |-> Bare(7777), status |-> "DETECTED",
                 campStatus |-> "SHOT",
                 notForwardedChannelId |-> Bare(4442), notForwardedMessageId |-> 11,
                 baseContentChannelId |-> Bare(5551), baseContentMessageId |-> 50,
                 editedContentChannelId |-> NoChan,
                 editedContentMessageIds |-> EditArr(<<101, 205>>)]
    [] p = 3 -> [pushId |-> 3, media |-> Bare(8888), status |-> "APPROVED",
                 campStatus |-> "ENDED",
                 notForwardedChannelId |-> Bare(4443), notForwardedMessageId |-> 12,
                 baseContentChannelId |-> Bare(5552), baseContentMessageId |-> 900,
                 editedContentChannelId |-> NoChan, editedContentMessageIds |-> NoEdit]
    [] p = 4 -> [pushId |-> 4, media |-> Bare(7777), status |-> "APPROVED",
                 campStatus |-> "PAUSE",
                 notForwardedChannelId |-> Bare(5552), notForwardedMessageId |-> 50,
                 baseContentChannelId |-> NoChan, baseContentMessageId |-> 0,
                 editedContentChannelId |-> NoChan, editedContentMessageIds |-> NoEdit]
    [] p = 6 -> [pushId |-> 6, media |-> Bare(7777), status |-> "APPROVED",
                 campStatus |-> "ON_GOING",
                 notForwardedChannelId |-> Bare(4446), notForwardedMessageId |-> 13,
                 baseContentChannelId |-> Bare(5552), baseContentMessageId |-> 205,
                 editedContentChannelId |-> NoChan, editedContentMessageIds |-> EditBad]
    [] p = 7 -> [pushId |-> 7, media |-> Bare(7777), status |-> "APPROVED",
                 campStatus |-> "ON_GOING",
                 notForwardedChannelId |-> Bare(4446), notForwardedMessageId |-> 13,
                 baseContentChannelId |-> Bare(5552), baseContentMessageId |-> 205,
                 editedContentChannelId |-> NoChan, editedContentMessageIds |-> NoEdit]
    [] OTHER -> [pushId |-> p, media |-> Bare(6000 + p), status |-> "DETECTED",
                 campStatus |-> "ON_GOING",
                 notForwardedChannelId |-> Bare(4440 + p), notForwardedMessageId |-> 10,
                 baseContentChannelId |-> NoChan, baseContentMessageId |-> 0,
                 editedContentChannelId |-> NoChan, editedContentMessageIds |-> NoEdit]

AllRows == [p \in 1..NumPlacements |-> PushRow(p)]
Reverse(s) == [i \in 1..Len(s) |-> s[Len(s) + 1 - i]]

ActiveStatuses == {"APPROVED", "DETECTED"}

\* WHERE campaigns.status != 'ENDED' AND pushList.status IN ('APPROVED','DETECTED')
\*   AND media.mediaIdentifier = ?       (campaigns.medium is TELEGRAM throughout)
IsActiveFor(r, ch) ==
  /\ r.campStatus # "ENDED"
  /\ r.status \in ActiveStatuses
  /\ r.media = ch

\* the candidate rows the placement query returns for an observed channel
ActiveRows(ch) == SelectSeq(AllRows, LAMBDA r : IsActiveFor(r, ch))

\* media.mediaIdentifier of a placement
MediaOf(p) == PushRow(p).media

(* ----------------------------- the events ------------------------------ *)
HostChans == {Bare(7777), Bare(8888)}
MsgIds == {1, 2}
\* message.date of the post with a given id
DateOf(id) == 10 * id
\* fwdFrom.fromId.channelId and fwdFrom.channelPost of the forwarded posts
Origins == {<<Bare(5551), 50>>, <<Bare(5551), 205>>, <<Bare(5551), 900>>}

Post(ch, id, out, post, fwd, fromCh, fromMsg) ==
  [ch |-> ch, id |-> id, out |-> out, post |-> post, date |-> DateOf(id),
   fwd |-> fwd, fromCh |-> fromCh, fromMsg |-> fromMsg]

\* an UpdateNewChannelMessage: message.peerId.channelId, message.id,
\* message.out, message.post, message.date and message.fwdFrom.  Forwarded
\* channel posts: two posts in channel 7777 from every origin, two posts in
\* channel 8888 from one origin, post 2 of channel 7777 from another origin
\* channel that reuses an edited id, and for post 1 of channel 7777 also: an
\* outgoing one, one
\* that is no channel post, one that is not forwarded, and two whose
\* fwdFrom lacks the origin channel or the origin message
PostEvents ==
  {Post(Bare(7777), m, FALSE, TRUE, TRUE, o[1], o[2]) : m \in MsgIds, o \in Origins}
  \cup
  {Post(Bare(8888), m, FALSE, TRUE, TRUE, Bare(5551), 900) : m \in MsgIds}
  \cup
  {Post(Bare(7777), 2, FALSE, TRUE, TRUE, Bare(5552), 205)}
  \cup
  {Post(Bare(7777), 1, TRUE, TRUE, TRUE, Bare(5551), 900),
   Post(Bare(7777), 1, FALSE, FALSE, TRUE, Bare(5551), 900),
   Post(Bare(7777), 1, FALSE, TRUE, FALSE, NoChan, 0),
   Post(Bare(7777), 1, FALSE, TRUE, TRUE, NoChan, 900),
   Post(Bare(7777), 1, FALSE, TRUE, TRUE, Bare(5551), 0)}

\* an UpdateDeleteChannelMessages: event.channelId (as the client delivers
\* it, bare or prefixed) and event.messages
DeleteEvents ==
  {[ch |-> Bare(7777), ids |-> <<>>], [ch |-> Pref(7777), ids |-> <<1>>],
   [ch |-> Bare(7777), ids |-> <<1, 2>>], [ch |-> Bare(8888), ids |-> <<1>>]}

(* ------------------------------ state ---------------------------------- *)
VARIABLES
  \* AdsFinder
  processedMessages,  \* this.processedMessages: the keys, in insertion order
  queryCache,         \* this.queryCache: entries [key, result, age], in insertion order
  sinceCleanup,       \* Date.now() - this.lastCleanupTime, capped
  tasks,              \* handler invocations suspended at an await point
  eventsLeft,         \* events the client may still deliver
  matcher,            \* the AdsFinder class that runs: the first one or the BaseService one
  \* the store
  detections,         \* table detections, in id order
  insightHistories,   \* table insightHistories, in id order
  \* observation of AdsFinder (history, not program state)
  runs,               \* per dedup key: pipeline executions since the key entered the set
  curRows,            \* per dedup key: PLACEMENT rows inserted by those executions
  lastLookup,         \* the checkForwardedMessage call that returned in the last step, if any
  errors              \* the failures of handler steps: in the last step, earlier, escaped

avars == <<processedMessages, queryCache, sinceCleanup, tasks, eventsLeft, matcher,
           runs, curRows, lastLookup, errors>>

\* ViewUpdater
VARIABLES
  isUpdating,       \* this.isUpdating
  run,              \* the locals of the performUpdate invocation in progress
  items,            \* per row of the run's result set: where processRow stands
  cachedDialogs,    \* this.cachedDialogs
  dialogsAge,       \* Date.now() - this.lastDialogsCacheTime, capped
  stats,            \* this.stats (the not-member set; the totals are left out)
  callsLeft,        \* performUpdate calls still to arrive while no run is in progress
  updater,          \* which ViewUpdater runs: the one with batches or the one with the item loop
  \* observation of ViewUpdater (history, not program state)
  activeRuns,       \* performUpdate invocations between their start and return
  lastCall          \* what the last step did, when it was a call of performUpdate

rvars == <<isUpdating, run, items, cachedDialogs, dialogsAge, stats, callsLeft,
           updater, activeRuns, lastCall>>

\* Database (the queued version)
VARIABLES
  pool,              \* this.pool: "open", "ending" (pool.end() awaited) or "none"
  queryQueue,        \* this.queryQueue: the items, oldest first
  isProcessingQueue, \* this.isProcessingQueue
  delaying,          \* processQueue is at its await of the queryDelay timer
  exec,              \* the executeQuery invocation in progress
  tx,                \* the transaction() invocation in progress
  abandoned,         \* pool.getConnection() promises whose race was lost to the timer
  leaked,            \* connections the pool handed to such promises
  madeCalls,         \* calls made so far
  \* observation of Database (history, not program state)
  orphans,           \* the calls whose item left the queue without resolve or reject
  called,            \* the call made in the last step
  settled,           \* the calls that returned or threw in the last step
  txDone             \* the transaction() call that returned or threw in the last step

gvars == <<pool, queryQueue, isProcessingQueue, delaying, exec, tx, abandoned,
           leaked, madeCalls, orphans, called, settled, txDone>>

\* the health checks: Observer (observer.js), the periodic check of
\* AdsFinder, and the health check BaseService runs for AdsFinder
VARIABLES
  dbUp,                 \* the database server can be reached
  check,                \* the health check in progress: whose, and its await
  healthCheckFailures,  \* this.healthCheckFailures of Observer and of BaseService
  \* observation of the health checks (history, not program state)
  streak,               \* per checker: its checks in a row that ended with the database out of reach and no restart
  lastCheck             \* the health check that ended in the last step, if any

hvars == <<dbUp, check, healthCheckFailures, streak, lastCheck>>

\* the life cycles: of an engine derived from BaseService, of Observer, and
\* of a call of Database.connect
VARIABLES
  service,     \* the fields of the BaseService part of the engine and its calls in progress
  observer,    \* the fields of Observer and its call in progress
  connecting   \* the fields Database.connect uses and its call in progress

svars == <<service, observer, connecting>>

(* ------------------- the store: writes ---------------------------------- *)
insertDataReplacing(table, row) ==
  IF \E i \in 1..Len(table) : table[i].pushId = row.pushId
  THEN [i \in 1..Len(table) |->
          IF table[i].pushId = row.pushId THEN row ELSE table[i]]
  ELSE Append(table, row)
\* Database.insertData: INSERT INTO table (columns) VALUES (?, ...), a new
\* row at the end of the table
insertData(table, row) == Append(table, row)

(* ------------------- AdsFinder: the dedup set -------------------------- *)
Range(s) == {s[i] : i \in 1..Len(s)}
Min(a, b) == IF a < b THEN a ELSE b
Max(a, b) == IF a > b THEN a ELSE b

\* Array.prototype.slice(-k): the last k elements, and the whole array for k = 0
SliceLast(s, k) ==
  IF k = 0 \/ k >= Len(s) THEN s ELSE SubSeq(s, Len(s) - k + 1, Len(s))

\* `${channelId}_${message.id}`
messageKey(ch, id) == <<ch, id>>

\* AdsFinder.manageProcessedMessagesSize
manageProcessedMessagesSize(pm) ==
  IF Len(pm) >= maxProcessedMessages
  THEN SliceLast(pm, maxProcessedMessages \div 2)
  ELSE pm

\* handleChannelMessage of the BaseService version, where processedMessages
\* is a Map: at the cap, this.processedMessages.delete(firstKey)
deleteFirstKey(pm) ==
  IF Len(pm) >= maxProcessedMessages THEN Tail(pm) ELSE pm

AlreadyProcessedNever(pm, key) == FALSE
\* this.processedMessages.has(messageKey)
AlreadyProcessed(pm, key) == key \in Range(pm)

\* Set.prototype.add
SetAdd(pm, key) == IF key \in Range(pm) THEN pm ELSE Append(pm, key)

(* ------------------- AdsFinder: the match cache ------------------------ *)
NoResult == [detected |-> FALSE, pushId |-> 0, channelId |-> NoChan,
             messageId |-> 0, date |-> 0]

\* `check_${fromChannelId}_${fromMessageId}`
cacheKey(fi) == <<fi.fromCh, fi.fromMsg>>

CacheIndex(cache, key) ==
  IF \E i \in 1..Len(cache) : cache[i].key = key
  THEN CHOOSE i \in 1..Len(cache) : cache[i].key = key
  ELSE 0

CacheFreshNever(cache, key) == FALSE
\* cached && (Date.now() - cached.time < this.CACHE_TTL)
CacheFresh(cache, key) ==
  CacheIndex(cache, key) # 0 /\ cache[CacheIndex(cache, key)].age < CACHE_TTL

CacheSetKeepsOld(cache, key, result, by) ==
  IF CacheIndex(cache, key) = 0
  THEN Append(cache, [key |-> key, result |-> result, age |-> 0, by |-> by])
  ELSE cache

\* Map.prototype.set: a present key keeps its place
\* (by records the observed channel of the lookup that stored the entry:
\* history, not a field of the entry)
CacheSet(cache, key, result, by) ==
  LET e == [key |-> key, result |-> result, age |-> 0, by |-> by]
      i == CacheIndex(cache, key)
  IN IF i = 0 THEN Append(cache, e) ELSE [cache EXCEPT ![i] = e]

\* AdsFinder.cleanCache: drop the expired entries, then the oldest ones
\* (sort by time, stable) down to maxCacheSize
cleanCache(cache) ==
  LET live == SelectSeq(cache, LAMBDA e : ~(e.age > CACHE_TTL))
      n == Len(live)
      \* place of entry i in the order sorted by time ascending
      rank(i) == Cardinality({j \in 1..n :
                    \/ live[j].age > live[i].age
                    \/ live[j].age = live[i].age /\ j < i})
      keepIdx == {i \in 1..n : rank(i) >= n - maxCacheSize}
      pick[i \in 0..n] ==
        IF i = 0 THEN <<>>
        ELSE IF i \in keepIdx THEN Append(pick[i - 1], live[i]) ELSE pick[i - 1]
  IN IF n > maxCacheSize THEN pick[n] ELSE live

\* AdsFinder.cleanCacheIfNeeded: <<the cache, sinceCleanup>> after it
cleanCacheIfNeeded(cache, since) ==
  LET due == since > cleanupInterval
      c1 == IF due THEN cleanCache(cache) ELSE cache
      c2 == IF Len(c1) > maxCacheSize THEN cleanCache(c1) ELSE c1
  IN <<c2, IF due THEN 0 ELSE since>>

(* ------------------- AdsFinder: the matching rule ---------------------- *)
\* row.editedContentChannelId || row.baseContentChannelId || row.notForwardedChannelId
searchingChannelId(row) ==
  OrChan(row.editedContentChannelId,
         OrChan(row.baseContentChannelId, row.notForwardedChannelId))

\* row.baseContentMessageId || row.notForwardedMessageId
searchingMessageId(row) ==
  OrNum(row.baseContentMessageId, row.notForwardedMessageId)

isMatchOriginalId(row, fi) ==
  /\ fi.fromCh = cleanChannelId(searchingChannelId(row))
  /\ fi.fromMsg = searchingMessageId(row)
\* the body of the candidate loop of checkForwardedMessage
isMatch(row, fi) ==
  IF row.editedContentMessageIds.kind # "null"
  THEN \* JSON.parse; a text that does not parse throws and is caught
       /\ row.editedContentMessageIds.kind = "array"
       /\ \E k \in 1..Len(row.editedContentMessageIds.ids) :
            /\ fi.fromCh = cleanChannelId(searchingChannelId(row))
            /\ fi.fromMsg = row.editedContentMessageIds.ids[k]
  ELSE /\ fi.fromCh = cleanChannelId(searchingChannelId(row))
       /\ fi.fromMsg = searchingMessageId(row)

\* the body of the candidate loop of checkForwardedMessage in class AdsFinder
\* extends BaseService: messageIds.includes(forwardInfo.fromMessageId) for a
\* row with editedMessageIds, channel and message id for a row without
isMatchBaseService(row, fi) ==
  IF row.editedContentMessageIds.kind # "null"
  THEN /\ row.editedContentMessageIds.kind = "array"
       /\ \E k \in 1..Len(row.editedContentMessageIds.ids) :
            fi.fromMsg = row.editedContentMessageIds.ids[k]
  ELSE /\ fi.fromCh = cleanChannelId(searchingChannelId(row))
       /\ fi.fromMsg = searchingMessageId(row)

\* the two classes AdsFinder of AdsFinder.js: the one at the head of the
\* file and the one that extends BaseService
Matchers == {"AdsFinder", "BaseService"}
Matches(m, row, fi) ==
  IF m = "BaseService" THEN isMatchBaseService(row, fi) ELSE isMatch(row, fi)

\* the candidate loop breaks off at the first row whose list does not parse
matchResultUntilMalformed(m, rows, fi) ==
  IF \E i \in 1..Len(rows) :
       /\ Matches(m, rows[i], fi)
       /\ \A j \in 1..i : rows[j].editedContentMessageIds.kind # "bad"
  THEN LET i == CHOOSE i \in 1..Len(rows) :
                  /\ Matches(m, rows[i], fi)
                  /\ \A j \in 1..(i - 1) : ~Matches(m, rows[j], fi)
       IN [detected |-> TRUE, pushId |-> rows[i].pushId, channelId |-> fi.ch,
           messageId |-> fi.id, date |-> fi.date]
  ELSE NoResult

\* the result object of checkForwardedMessage for the rows of the query:
\* the first matching row wins; { detected: true, pushId, ...forwardInfo }
matchResult(m, rows, fi) ==
  IF \E i \in 1..Len(rows) : Matches(m, rows[i], fi)
  THEN LET i == CHOOSE i \in 1..Len(rows) :
                  /\ Matches(m, rows[i], fi)
                  /\ \A j \in 1..(i - 1) : ~Matches(m, rows[j], fi)
       IN [detected |-> TRUE, pushId |-> rows[i].pushId, channelId |-> fi.ch,
           messageId |-> fi.id, date |-> fi.date]
  ELSE NoResult

(* ------------------- AdsFinder: the handlers --------------------------- *)
Keys == {messageKey(c, m) : c \in HostChans, m \in MsgIds}
\* the suspended handler invocations, in the order they were started
TaskIds == 1..Len(tasks)
Remove(seq, t) == [i \in 1..(Len(seq) - 1) |-> IF i < t THEN seq[i] ELSE seq[i + 1]]

IdleTask == [pc |-> "idle", ch |-> NoChan, id |-> 0, date |-> 0,
             fromCh |-> NoChan, fromMsg |-> 0, res |-> NoResult,
             cur |-> FALSE, fresh |-> FALSE, expired |-> FALSE, ids |-> <<>>,
             rows |-> <<>>, afterFail |-> FALSE]

\* what the last step did, when it was a checkForwardedMessage that returned
\* ("hit" from the cache, "db" after its query) or a post dropped by the
\* dedup check ("dup"); by is the observed channel of the lookup that stored
\* the entry a hit returned; expired tells that the lookup found an entry of
\* its key whose age had reached the TTL
NoLookup == [kind |-> "none", ch |-> NoChan, id |-> 0, fromCh |-> NoChan,
             fromMsg |-> 0, dbok |-> FALSE, fresh |-> FALSE, expired |-> FALSE,
             stored |-> FALSE, calls |-> 0, detected |-> FALSE, pushId |-> 0,
             by |-> NoChan]

HasFreeSlot == Len(tasks) < MaxTasks

\* the try statements with a catch clause around each step of the handlers,
\* innermost first.  The step "dedup" is the synchronous head of
\* handleChannelMessage, which in the BaseService version is inside a
\* try ... finally without a catch clause, so that only the handler
\* registered with the client catches there
TryBlocks(step) ==
  CASE step = "dedup" -> <<"unifiedHandler">>
    [] step = "lookup" ->
         <<"getData", "checkForwardedMessage", "handleChannelMessage",
           "unifiedHandler">>
    [] step = "metadata" ->
         <<"getChannelInfo", "handleChannelMessage", "unifiedHandler">>
    [] step = "persist" ->
         <<"saveDetection", "handleChannelMessage", "unifiedHandler">>
    [] step = "notify" ->
         <<"notifyAdmin", "handleChannelMessage", "unifiedHandler">>
    [] step = "dellookup" ->
         <<"getData", "handleDeletedMessages", "unifiedHandler">>
    [] step = "delpersist" ->
         <<"saveRemovalDetection", "handleDeletedMessages", "unifiedHandler">>

CatchesNothing(block) == FALSE
\* try { ... } catch (error) { console.error(...) }: the catch clause logs
\* and does not throw again
Catches(block) ==
  block \in {"unifiedHandler", "handleChannelMessage", "handleDeletedMessages",
             "checkForwardedMessage", "getChannelInfo", "saveDetection",
             "notifyAdmin", "saveRemovalDetection", "getData"}

\* an error thrown at a step leaves the handler registered with the client
Escapes(step) ==
  \A i \in 1..Len(TryBlocks(step)) : ~Catches(TryBlocks(step)[i])

NoErrors == [now |-> FALSE, seen |-> FALSE, escaped |-> FALSE]

\* the record of failures after a step in which the steps in failedSteps
\* threw
Failed(failedSteps) ==
  [now |-> failedSteps # {},
   seen |-> errors.seen \/ failedSteps # {},
   escaped |-> errors.escaped \/ \E st \in failedSteps : Escapes(st)]

\* the channelInfo / forwardInfo object of handleChannelMessage
forwardInfo(e) ==
  [ch |-> e.ch, id |-> e.id, date |-> e.date,
   fromCh |-> IF e.fwd /\ HasChan(e.fromCh) THEN cleanChannelId(e.fromCh) ELSE NoChan,
   fromMsg |-> IF e.fwd THEN e.fromMsg ELSE 0]

\* the dedup set after the handler made room for one more key
MadeRoom(m, pm) ==
  IF m = "AdsFinder" THEN manageProcessedMessagesSize(pm) ELSE deleteFirstKey(pm)

\* the keys dropped to make room
Evicted(pm) == Range(pm) \ Range(MadeRoom(matcher, pm))

\* the cache and sinceCleanup after the head of checkForwardedMessage that
\* found no fresh entry: only the first version calls cleanCacheIfNeeded, the
\* BaseService version has no eviction of the cache at all
CleanedBefore(m, cache, since) ==
  IF m = "AdsFinder" THEN cleanCacheIfNeeded(cache, since) ELSE <<cache, since>>

\* handleChannelMessage up to its first await point, for a post that passed
\* the dedup check
StartPipeline(e) ==
  LET key == messageKey(e.ch, e.id)
      gone == Evicted(processedMessages)
      fi == forwardInfo(e)
      ck == cacheKey(fi)
      ci == CacheIndex(queryCache, ck)
      fresh == \E k \in 1..Len(queryCache) :
                 queryCache[k].key = ck /\ queryCache[k].age < CACHE_TTL
      expired == \E k \in 1..Len(queryCache) :
                   queryCache[k].key = ck /\ queryCache[k].age >= CACHE_TTL
      live == [t \in 1..Len(tasks) |->
                 IF messageKey(tasks[t].ch, tasks[t].id) \in gone
                 THEN [tasks[t] EXCEPT !.cur = FALSE] ELSE tasks[t]]
      task == [IdleTask EXCEPT !.ch = fi.ch, !.id = fi.id, !.date = fi.date,
                               !.fromCh = fi.fromCh, !.fromMsg = fi.fromMsg,
                               !.cur = TRUE, !.afterFail = errors.seen]
      cleaned == CleanedBefore(matcher, queryCache, sinceCleanup)
  IN /\ processedMessages' =
          SetAdd(MadeRoom(matcher, processedMessages), key)
     /\ runs' = [k \in Keys |->
                   IF k = key
                   THEN (IF key \in Range(processedMessages) \ gone
                         THEN runs[k] ELSE 0) + 1
                   ELSE IF k \in gone THEN 0 ELSE runs[k]]
     /\ curRows' = [k \in Keys |->
                   IF k \in gone \/ (k = key /\ key \notin Range(processedMessages))
                   THEN 0 ELSE curRows[k]]
     /\ IF ~(HasChan(fi.fromCh) /\ fi.fromMsg # 0)
        THEN \* not forwarded, or not attributable
             /\ tasks' = live
             /\ lastLookup' = NoLookup
             /\ UNCHANGED <<queryCache, sinceCleanup>>
        ELSE IF CacheFresh(queryCache, ck)
        THEN \* checkForwardedMessage returns cached.result
             /\ lastLookup' =
                  [kind |-> "hit", ch |-> fi.ch, id |-> fi.id,
                   fromCh |-> fi.fromCh, fromMsg |-> fi.fromMsg,
                   dbok |-> FALSE, fresh |-> fresh, expired |-> expired,
                   stored |-> TRUE, calls |-> 0,
                   detected |-> queryCache[ci].result.detected,
                   pushId |-> queryCache[ci].result.pushId,
                   by |-> queryCache[ci].by]
             /\ tasks' = IF queryCache[ci].result.detected
                         THEN Append(live, [task EXCEPT !.pc = "insert",
                                                  !.res = queryCache[ci].result])
                         ELSE live
             /\ UNCHANGED <<queryCache, sinceCleanup>>
        ELSE \* cleanCacheIfNeeded() in the first version, then
             \* await this.database.getData(query)
             /\ queryCache' = cleaned[1]
             /\ sinceCleanup' = cleaned[2]
             /\ tasks' = Append(live, [task EXCEPT !.pc = "query", !.fresh = fresh,
                                                  !.expired = expired])
             /\ lastLookup' = NoLookup

\* the client delivers an UpdateNewChannelMessage: unifiedHandler and
\* handleChannelMessage up to the first await point
NewPost(e) ==
  /\ eventsLeft > 0
  /\ HasFreeSlot
  /\ eventsLeft' = eventsLeft - 1
  /\ IF e.out \/ ~e.post
        \/ AlreadyProcessed(processedMessages, messageKey(e.ch, e.id))
     THEN /\ lastLookup' = IF e.out \/ ~e.post THEN NoLookup
                            ELSE [NoLookup EXCEPT !.kind = "dup", !.ch = e.ch,
                                                  !.id = e.id]
          /\ UNCHANGED <<processedMessages, queryCache, sinceCleanup, tasks,
                         runs, curRows>>
     ELSE StartPipeline(e)
  /\ errors' = Failed({})
  /\ UNCHANGED <<detections, insightHistories, rvars, gvars, hvars, svars, matcher>>

\* the client delivers an update whose message lacks peerId: the guard of
\* unifiedHandler drops it; in the BaseService version
\* message.peerId.channelId throws in handleChannelMessage and the handler
\* registered with the client catches it
Malformed ==
  /\ eventsLeft > 0
  /\ eventsLeft' = eventsLeft - 1
  /\ errors' = Failed({"dedup"})
  /\ lastLookup' = NoLookup
  /\ UNCHANGED <<processedMessages, queryCache, sinceCleanup, tasks, runs,
                 curRows, detections, insightHistories, rvars, gvars, hvars, svars,
                    matcher>>

\* a detections row; srcCh and srcId record the post whose handler
\* inserted it (history, not columns)
PlacementRow(t) ==
  [type |-> "PLACEMENT", pushId |-> t.res.pushId, postId |-> t.res.messageId,
   actionTime |-> t.res.date * 1000,
   srcCh |-> t.ch, srcId |-> t.id, basis |-> "none"]

\* getData returns the rows, or [] when the query failed (Database.getData
\* catches every error)
getDataRows(ok, rows) == IF ok THEN rows ELSE <<>>

\* checkForwardedMessage after await this.database.getData(...)
QueryReturn(t, ok) ==
  LET task == tasks[t]
      fi == [ch |-> task.ch, id |-> task.id, date |-> task.date,
             fromCh |-> task.fromCh, fromMsg |-> task.fromMsg]
      rows == getDataRows(ok, ActiveRows(cleanChannelId(task.ch)))
      res == IF Len(rows) = 0 THEN NoResult ELSE matchResult(matcher, rows, fi)
  IN /\ task.pc = "query"
     /\ queryCache' = CacheSet(queryCache, cacheKey(fi), res, task.ch)
     /\ lastLookup' =
          [kind |-> "db", ch |-> task.ch, id |-> task.id, fromCh |-> task.fromCh,
           fromMsg |-> task.fromMsg, dbok |-> ok, fresh |-> task.fresh,
           expired |-> task.expired,
           stored |-> \E k \in 1..Len(queryCache') :
                        /\ queryCache'[k].key = cacheKey(fi)
                        /\ queryCache'[k].result = res
                        /\ queryCache'[k].age = 0,
           calls |-> 1, detected |-> res.detected, pushId |-> res.pushId,
           by |-> task.ch]
     /\ tasks' = IF res.detected
                 THEN [tasks EXCEPT ![t] = [task EXCEPT !.pc = "insert", !.res = res]]
                 ELSE Remove(tasks, t)
     /\ errors' = Failed(IF ok THEN {} ELSE {"lookup"})
     /\ UNCHANGED <<processedMessages, sinceCleanup, eventsLeft, detections,
                    insightHistories, runs, curRows, rvars, gvars, hvars, svars,
                    matcher>>

\* handleChannelMessage after a detected result: await getChannelInfo (which
\* catches its own errors and changes nothing of this state), then
\* saveDetection's await insertData: the row is in the table, or the insert
\* threw and saveDetection caught it; notifyDetection follows.  meta and
\* notify tell whether getEntity and sendMessage succeeded
InsertReturn(t, meta, ok, notify) ==
  LET task == tasks[t]
      key == messageKey(task.ch, task.id)
  IN /\ task.pc = "insert"
     /\ errors' = Failed((IF meta THEN {} ELSE {"metadata"})
                         \cup (IF ok THEN {} ELSE {"persist"})
                         \cup (IF notify THEN {} ELSE {"notify"}))
     /\ detections' = IF ok THEN insertData(detections, PlacementRow(task))
                      ELSE detections
     /\ curRows' = IF ok /\ task.cur
                   THEN [curRows EXCEPT ![key] = @ + 1] ELSE curRows
     /\ tasks' = Remove(tasks, t)
     /\ UNCHANGED <<processedMessages, queryCache, sinceCleanup, eventsLeft,
                    insightHistories, runs, rvars, gvars, hvars, svars, matcher>>
     /\ lastLookup' = NoLookup

\* the client delivers an UpdateDeleteChannelMessages: handleDeletedMessages
\* up to await this.database.getData(query, params)
Deleted(e) ==
  /\ eventsLeft > 0
  /\ HasFreeSlot
  /\ eventsLeft' = eventsLeft - 1
  /\ tasks' = IF Len(e.ids) = 0 THEN tasks
              ELSE Append(tasks, [IdleTask EXCEPT !.pc = "delq",
                                                !.ch = cleanChannelId(e.ch),
                                                !.ids = e.ids,
                                                !.afterFail = errors.seen])
  /\ errors' = Failed({})
  /\ UNCHANGED <<processedMessages, queryCache, sinceCleanup, detections,
                 insightHistories, runs, curRows, rvars, gvars, hvars, svars,
                    matcher>>
  /\ lastLookup' = NoLookup

\* FROM detections ... WHERE media.mediaIdentifier = ? AND postId IN (...)
DeletedMatch(d, ch, ids) ==
  /\ MediaOf(d.pushId) = ch
  /\ d.postId \in Range(ids)

\* handleDeletedMessages after the query returned
DelQueryReturn(t, ok) ==
  LET task == tasks[t]
      results == getDataRows(ok,
                   SelectSeq(detections,
                             LAMBDA d : DeletedMatch(d, task.ch, task.ids)))
  IN /\ task.pc = "delq"
     /\ errors' = Failed(IF ok THEN {} ELSE {"dellookup"})
     /\ tasks' = IF Len(results) > 0
                 THEN [tasks EXCEPT ![t] = [task EXCEPT !.pc = "delins",
                                                        !.rows = results]]
                 ELSE Remove(tasks, t)
     /\ UNCHANGED <<processedMessages, queryCache, sinceCleanup, eventsLeft,
                    detections, insightHistories, runs, curRows, rvars, gvars, hvars, svars,
                    matcher>>
     /\ lastLookup' = NoLookup

\* saveRemovalDetection(row); basis records the type of the row it was
\* made from (history, not a column); actionTime is Date.now(), of which
\* the model keeps no absolute value
RemovalRow(row) ==
  [type |-> "REMOVE", pushId |-> row.pushId, postId |-> row.postId,
   actionTime |-> 0,
   srcCh |-> row.srcCh, srcId |-> row.srcId,
   basis |-> row.type]

RECURSIVE Removals(_, _, _)
Removals(rows, okset, i) ==
  IF i > Len(rows) THEN <<>>
  ELSE (IF i \in okset THEN <<RemovalRow(rows[i])>> ELSE <<>>)
       \o Removals(rows, okset, i + 1)

\* handleDeletedMessages after await Promise.all(removalPromises): one
\* insert per result row, each of which may fail on its own (caught in
\* saveRemovalDetection); the consolidated notification follows
DelInsertReturn(t, okset) ==
  LET task == tasks[t]
  IN /\ task.pc = "delins"
     /\ okset \subseteq 1..Len(task.rows)
     /\ errors' = Failed(IF okset = 1..Len(task.rows) THEN {} ELSE {"delpersist"})
     /\ detections' = detections \o Removals(task.rows, okset, 1)
     /\ tasks' = Remove(tasks, t)
     /\ UNCHANGED <<processedMessages, queryCache, sinceCleanup, eventsLeft,
                    insightHistories, runs, curRows, rvars, gvars, hvars, svars,
                    matcher>>
  /\ lastLookup' = NoLookup

\* time passes: every cache entry ages by one tick (ages past the values the
\* program compares them with are not told apart)
TickDetect ==
  /\ ~(/\ sinceCleanup > cleanupInterval
       /\ \A k \in 1..Len(queryCache) : queryCache[k].age > CACHE_TTL)
  /\ queryCache' = [k \in 1..Len(queryCache) |->
                      [queryCache[k] EXCEPT !.age = Min(@ + 1, CACHE_TTL + 1)]]
  /\ sinceCleanup' = Min(sinceCleanup + 1, cleanupInterval + 1)
  /\ errors' = Failed({})
  /\ UNCHANGED <<processedMessages, tasks, eventsLeft, detections,
                 insightHistories, runs, curRows, rvars, gvars, hvars, svars,
                    matcher>>
  /\ lastLookup' = NoLookup

(* ------------------- ViewUpdater: state -------------------------------- *)
\* the locals of performUpdate; i is the (1-based) start of the batch in
\* progress, elapsed the time since getDialogs took Date.now(), no the
\* number of the run and refresh how its call of getDialogIds ended (history)
IdleRun == [pc |-> "idle", results |-> <<>>, dialogsSet |-> {}, i |-> 0,
            updatedCount |-> 0, errorCount |-> 0, notMemberChannels |-> <<>>,
            delayLeft |-> 0, elapsed |-> 0, no |-> 0, refresh |-> "none"]

\* processRow of one row: not started ("wait"), waiting for the detection
\* query ("det"), for getMessages ("msg"), for the insert ("ins"), sleeping
\* after a flood wait ("sleep"), returned or thrown ("done").  lookups,
\* fetches and slept count the detection queries, the getMessages calls and
\* the ticks slept, inserted tells whether the INSERT was executed (history)
WaitItem == [pc |-> "wait", out |-> "none", postId |-> 0, view |-> 0, share |-> 0,
             need |-> 0, sleepLeft |-> 0, slept |-> 0, lookups |-> 0,
             fetches |-> 0, inserted |-> FALSE]

\* the result set of performUpdate's query: DETECTED placements of campaigns
\* in ('ON_GOING','SHOT','PAUSE'), ORDER BY pushList.id DESC
IsDue(r) ==
  /\ r.status = "DETECTED"
  /\ r.campStatus \in {"ON_GOING", "SHOT", "PAUSE"}
ResultRow(r) == [pushId |-> r.pushId, mediaIdentifier |-> r.media]
DueRows ==
  LET due == SelectSeq(AllRows, LAMBDA r : IsDue(r))
  IN Reverse([k \in 1..Len(due) |-> ResultRow(due[k])])

\* what client.getDialogs may list: the ids of the visible channels as
\* strings, possibly none
DialogAnswers == {<<Pref(7777), Bare(6005)>>, <<Pref(7777)>>, <<Bare(6005)>>, <<>>}

\* how a call of TelegramManager.getDialogIds may end: the platform lists
\* the dialogs, or the call fails (the client is not connected, or
\* client.getDialogs throws)
DialogOutcomes ==
  {[failed |-> FALSE, ids |-> d] : d \in DialogAnswers}
    \cup {[failed |-> TRUE, ids |-> <<>>]}

\* TelegramManager.getDialogIds: the listed ids; "return []" when the client
\* is not connected and in the catch clause around the whole body
getDialogIds(o) == IF o.failed THEN <<>> ELSE o.ids

\* the dialogs an earlier run may have left in the cache
EarlierDialogs == {<<>>, <<Pref(7777)>>}

\* what the platform may answer to getMessages: the message with its
\* counters, no message, or an error (CHANNEL_PRIVATE, FLOOD_WAIT_s, other)
Answer(kind, views, forwards, seconds) ==
  [kind |-> kind, views |-> views, forwards |-> forwards, seconds |-> seconds]
MessageAnswers(pushId) ==
  {Answer("found", 10 * pushId, pushId, 0), Answer("empty", 0, 0, 0),
   Answer("private", 0, 0, 0), Answer("other", 0, 0, 0)}
  \cup {Answer("flood", 0, 0, s) : s \in 1..MaxFlood}

\* the detections table when the reconciliation runs: placement 1 detected
\* twice (posts 1 and 2) and removed once, placements 2 and 5 detected
\* once, the further placements never; the stored removal was made from the
\* detection of the same post
StoredRow(type, pushId, postId) ==
  [type |-> type, pushId |-> pushId, postId |-> postId,
   actionTime |-> DateOf(postId) * 1000,
   srcCh |-> MediaOf(pushId), srcId |-> postId,
   basis |-> IF type = "REMOVE" THEN "PLACEMENT" ELSE "none"]
StoredDetections ==
  <<StoredRow("PLACEMENT", 1, 1), StoredRow("PLACEMENT", 5, 1),
    StoredRow("PLACEMENT", 2, 2), StoredRow("PLACEMENT", 1, 2),
    StoredRow("REMOVE", 1, 2)>>

isInDialogsAlways(row, dialogsSet) == TRUE
\* dialogsSet.has("-100" + id) || dialogsSet.has(id) || dialogsSet.has(String(id))
isInDialogs(row, dialogsSet) ==
  \/ AddPrefix(row.mediaIdentifier) \in dialogsSet
  \/ row.mediaIdentifier \in dialogsSet

\* notMemberChannels.set / .get(...).pushIds.push: the Map, in insertion order
NoteNotMember(nm, row) ==
  LET id == AddPrefix(row.mediaIdentifier)
  IN IF \E k \in 1..Len(nm) : nm[k].id = id
     THEN [k \in 1..Len(nm) |->
             IF nm[k].id = id
             THEN [nm[k] EXCEPT !.pushIds = Append(@, row.pushId)] ELSE nm[k]]
     ELSE Append(nm, [id |-> id, pushIds |-> <<row.pushId>>])

\* results.slice(i, i + batchSize): the last row of the batch that starts at
\* row start, and the batch a row belongs to
BatchLast(start, n) == Min(start + batchSize - 1, n)
BatchOf(k) == (k - 1) \div batchSize

\* batch.map(async row => ...processRow(row, dialogsSet, notMemberChannels)):
\* every row of the batch runs to its first await point, in order; a row
\* whose channel is not in the dialogs returns at once
RECURSIVE StartRows(_, _, _, _, _, _, _)
StartRows(results, dialogsSet, k, last, its, nm, snm) ==
  IF k > last
  THEN [items |-> its, notMemberChannels |-> nm, statsNotMember |-> snm]
  ELSE LET row == results[k]
           inD == isInDialogs(row, dialogsSet)
       IN StartRows(results, dialogsSet, k + 1, last,
            [its EXCEPT ![k] =
               IF inD THEN [@ EXCEPT !.pc = "det", !.lookups = @ + 1]
               ELSE [@ EXCEPT !.pc = "done", !.out = "notMember"]],
            IF inD THEN nm ELSE NoteNotMember(nm, row),
            IF inD THEN snm ELSE snm \cup {AddPrefix(row.mediaIdentifier)})

\* what an earlier session of the Detection Engine left for post 2 of
\* channel 7777: the detection of placement 1 and its removal
EarlierDetections == SubSeq(StoredDetections, 4, 5)

\* SELECT * FROM detections WHERE pushId = ? AND type = 'PLACEMENT'
\*   ORDER BY id DESC LIMIT 1
LastPlacement(d, pushId) ==
  LET sel == SelectSeq(d, LAMBDA x : x.pushId = pushId /\ x.type = "PLACEMENT")
  IN IF Len(sel) = 0 THEN <<>> ELSE <<sel[Len(sel)]>>

insertOrUpdate(table, row) ==
  IF \E i \in 1..Len(table) : table[i].pushId = row.pushId
  THEN [i \in 1..Len(table) |->
          IF table[i].pushId = row.pushId THEN row ELSE table[i]]
  ELSE Append(table, row)
\* INSERT INTO insightHistories (pushId, viewCount, share) VALUES (?, ?, ?)
insertInto(table, row) == Append(table, row)

\* an insightHistories row; run records the run that inserted it (history,
\* not a column)
InsightRow(pushId, view, share, no) ==
  [pushId |-> pushId, viewCount |-> view, share |-> share, run |-> no]

\* the insightHistories table when the reconciliation starts: run 0 stands
\* for a run before the behaviour
EarlierInsights == <<InsightRow(1, 5, 0, 0)>>

(* ------------------- ViewUpdater: performUpdate ------------------------ *)
ItemIds == 1..Len(items)

\* the two ViewUpdater classes: the one that processes the rows in batches
\* (processRow) and the one that awaits them one by one (processItem)
Updaters == {"batches", "items"}

\* how performUpdate counts a row that ended with out.  The batch callback:
\*   if (result.success) updatedCount++; else if (result.error) errorCount++;
\*   catch (error) { errorCount++ }
\* where no value processRow returns has an error field.  The item loop:
\*   if (result.success) updatedCount++; else errorCount++;
\*   catch (error) { errorCount++ }
CountItem(u, r, out) ==
  IF out = "success" THEN [r EXCEPT !.updatedCount = @ + 1]
  ELSE IF u = "items" \/ out = "error" THEN [r EXCEPT !.errorCount = @ + 1]
  ELSE r

ShouldSkipNever(updating) == FALSE
\* if (this.isUpdating) return;  (the interval callback of start() tests the
\* same flag before it calls performUpdate)
ShouldSkip(updating) == updating

\* performUpdate is called, by the interval timer or directly: it returns at
\* once when a run is in progress, and otherwise runs up to
\* await this.database.getData(query)
PerformUpdate ==
  /\ isUpdating \/ callsLeft > 0
  /\ callsLeft' = IF isUpdating THEN callsLeft ELSE callsLeft - 1
  /\ IF ShouldSkip(isUpdating)
     THEN /\ lastCall' = "skipped"
          /\ UNCHANGED <<isUpdating, run, items, activeRuns>>
     ELSE /\ lastCall' = "started"
          /\ isUpdating' = TRUE
          /\ run' = [IdleRun EXCEPT !.pc = "query", !.no = run.no + 1]
          /\ items' = <<>>
          /\ activeRuns' = activeRuns + 1
  /\ UNCHANGED <<updater, cachedDialogs, dialogsAge, stats, avars, gvars, hvars, svars, detections,
                 insightHistories>>

\* return ...; finally { this.isUpdating = false; }
ReturnFromRun ==
  /\ isUpdating' = FALSE
  /\ run' = [run EXCEPT !.pc = "idle"]
  /\ activeRuns' = activeRuns - 1

\* the batch loop at the top of an iteration: the rows of the batch that
\* starts at row start begin processRow
StartBatch(r, its, start) ==
  LET st == StartRows(r.results, r.dialogsSet, start,
                      BatchLast(start, Len(r.results)), its,
                      r.notMemberChannels, stats.notMemberChannels)
  IN /\ run' = [r EXCEPT !.pc = "batch", !.i = start,
                         !.notMemberChannels = st.notMemberChannels]
     /\ items' = st.items
     /\ stats' = [stats EXCEPT !.notMemberChannels = st.statsNotMember]

\* the item loop at the top of an iteration: processItem begins for row k
\* and returns at once when the channel is not in the dialogs (nothing is
\* noted for a report, the loop counts the row)
StartItem(r, its, k) ==
  LET inD == isInDialogs(r.results[k], r.dialogsSet)
      at == [r EXCEPT !.pc = "batch", !.i = k]
  IN /\ run' = IF inD THEN at ELSE CountItem("items", at, "notMember")
     /\ items' = [its EXCEPT ![k] =
                    IF inD THEN [@ EXCEPT !.pc = "det", !.lookups = @ + 1]
                    ELSE [@ EXCEPT !.pc = "done", !.out = "notMember"]]
     /\ stats' = stats

\* the rows begin: the first batch, or the first row
StartNext(r, its, start) ==
  IF updater = "batches" THEN StartBatch(r, its, start) ELSE StartItem(r, its, start)

\* getDialogs: the cache is empty or older than dialogsCacheTTL
DialogsStale == Len(cachedDialogs) = 0 \/ dialogsAge > dialogsCacheTTL

\* performUpdate after the query returned: no rows ends the run; otherwise
\* getDialogs either awaits telegram.getDialogIds or returns the cache, and
\* in the latter case the first batch starts
RunQueryReturn(ok) ==
  LET results == getDataRows(ok, DueRows)
      waiting == [k \in 1..Len(results) |-> WaitItem]
  IN /\ run.pc = "query"
     /\ IF Len(results) = 0
        THEN ReturnFromRun /\ UNCHANGED <<items, stats>>
        ELSE IF DialogsStale
        THEN /\ run' = [run EXCEPT !.pc = "dialogs", !.results = results,
                                   !.elapsed = 0]
             /\ items' = waiting
             /\ UNCHANGED <<isUpdating, activeRuns, stats>>
        ELSE /\ StartNext([run EXCEPT !.results = results,
                                       !.dialogsSet = Range(cachedDialogs)],
                           waiting, 1)
             /\ UNCHANGED <<isUpdating, activeRuns>>
     /\ UNCHANGED <<updater, cachedDialogs, dialogsAge, callsLeft, avars, gvars, hvars, svars, detections,
                    insightHistories>>
  /\ lastCall' = "none"

\* getDialogs after await this.telegram.getDialogIds(1000): the value the
\* call returned replaces the cache, lastDialogsCacheTime is the time the
\* call began; the first batch starts.  getDialogIds never throws, so the
\* catch clause of getDialogs is not entered
DialogsReturn(o) ==
  /\ run.pc = "dialogs"
  /\ cachedDialogs' = getDialogIds(o)
  /\ dialogsAge' = run.elapsed
  /\ StartNext([run EXCEPT !.dialogsSet = Range(getDialogIds(o)),
                            !.refresh = IF o.failed THEN "failed" ELSE "ok"],
                items, 1)
  /\ UNCHANGED <<updater, isUpdating, activeRuns, callsLeft, avars, gvars, hvars, svars,
                 detections, insightHistories>>
  /\ lastCall' = "none"

\* processRow after the detection query returned: no row ends the item,
\* otherwise getMessages is called for the post of the latest detection
ItemDetReturn(k, ok) ==
  LET found == getDataRows(ok, LastPlacement(detections, run.results[k].pushId))
  IN /\ items[k].pc = "det"
     /\ items' = [items EXCEPT ![k] =
                    IF Len(found) = 0
                    THEN [@ EXCEPT !.pc = "done", !.out = "noDetection"]
                    ELSE [@ EXCEPT !.pc = "msg", !.postId = found[1].postId,
                                   !.fetches = @ + 1]]
     /\ run' = IF Len(found) = 0 THEN CountItem(updater, run, "noDetection")
               ELSE run
     /\ UNCHANGED <<updater, isUpdating, cachedDialogs, dialogsAge, stats, callsLeft,
                    activeRuns, avars, gvars, hvars, svars, detections, insightHistories>>
  /\ lastCall' = "none"

\* processRow after getMessages returned or threw.  processItem knows the
\* flood wait only: every other error, CHANNEL_PRIVATE included, is thrown
\* on to the item loop
ItemMsgReturn(k, ans) ==
  /\ items[k].pc = "msg"
  /\ items' = [items EXCEPT ![k] =
       CASE ans.kind = "found" ->
              \* the insert is sent through database.getData
              [@ EXCEPT !.pc = "ins", !.view = ans.views, !.share = ans.forwards]
         [] ans.kind = "empty" -> [@ EXCEPT !.pc = "done", !.out = "messageNotFound"]
         [] ans.kind = "private" -> [@ EXCEPT !.pc = "done", !.out = "private"]
         [] ans.kind = "flood" ->
              \* await new Promise(resolve => setTimeout(resolve, seconds * 1000))
              [@ EXCEPT !.pc = "sleep", !.need = ans.seconds,
                        !.sleepLeft = ans.seconds]
         [] OTHER -> \* rethrown, caught in the batch: errorCount++
              [@ EXCEPT !.pc = "done", !.out = "error"]]
  /\ stats' = IF ans.kind = "private" /\ updater = "batches"
              THEN [stats EXCEPT !.notMemberChannels =
                      @ \cup {AddPrefix(run.results[k].mediaIdentifier)}]
              ELSE stats
  /\ run' = CASE ans.kind = "empty" -> CountItem(updater, run, "messageNotFound")
              [] ans.kind = "private" -> CountItem(updater, run, "private")
              [] ans.kind = "other" -> CountItem(updater, run, "error")
              [] OTHER -> run
  /\ UNCHANGED <<updater, isUpdating, cachedDialogs, dialogsAge, callsLeft, activeRuns,
                 avars, gvars, hvars, svars, detections, insightHistories>>
  /\ lastCall' = "none"

\* how the row ends when the insert returned: processRow sent it through
\* getData, which returns [] when the insert failed; processItem sent it
\* through insertData, which throws
InsertOut(u, ok) == IF ok \/ u = "batches" THEN "success" ELSE "error"

\* processRow after await this.database.getData(insertQuery, ...): the row
\* is in the table, or the insert failed and getData returned []; either
\* way processRow returns success and the batch counts the item as updated.
\* processItem after await this.database.insertData(...) returned or threw
ItemInsReturn(k, ok) ==
  /\ items[k].pc = "ins"
  /\ insightHistories' =
       IF ok THEN insertInto(insightHistories,
                             InsightRow(run.results[k].pushId, items[k].view,
                                        items[k].share, run.no))
       ELSE insightHistories
  /\ items' = [items EXCEPT ![k] = [@ EXCEPT !.pc = "done",
                                             !.out = InsertOut(updater, ok),
                                             !.inserted = ok]]
  /\ run' = CountItem(updater, run, InsertOut(updater, ok))
  /\ UNCHANGED <<updater, isUpdating, cachedDialogs, dialogsAge, stats, callsLeft,
                 activeRuns, avars, gvars, hvars, svars, detections>>
  /\ lastCall' = "none"

SleepOverAtOnce(item) == TRUE
\* the timer of the flood-wait sleep has run out
SleepOver(item) == item.sleepLeft = 0

\* processRow after the flood-wait sleep: return { floodWait: true };
\* processItem after it: throw error
ItemSleepDone(k) ==
  /\ items[k].pc = "sleep"
  /\ SleepOver(items[k])
  /\ items' = [items EXCEPT ![k] = [@ EXCEPT !.pc = "done", !.out = "floodWait"]]
  /\ run' = CountItem(updater, run, "floodWait")
  /\ UNCHANGED <<updater, isUpdating, cachedDialogs, dialogsAge, stats, callsLeft,
                 activeRuns, avars, gvars, hvars, svars, detections, insightHistories>>
  /\ lastCall' = "none"

BatchSettledAny(its, start, last) == \E k \in start..last : its[k].pc = "done"
\* await Promise.all(batchPromises): every row of the batch has returned
BatchSettled(its, start, last) == \A k \in start..last : its[k].pc = "done"

\* sendUpdateReport sends a message when something was updated, failed or
\* was found not-member
HasReport(r) ==
  r.updatedCount > 0 \/ r.errorCount > 0 \/ Len(r.notMemberChannels) > 0

\* performUpdate after await Promise.all(batchPromises): the inter-batch
\* delay when rows are left; otherwise the totals, and the report if any
BatchDone ==
  /\ updater = "batches"
  /\ run.pc = "batch"
  /\ BatchSettled(items, run.i, BatchLast(run.i, Len(run.results)))
  /\ IF run.i + batchSize <= Len(run.results)
     THEN /\ run' = [run EXCEPT !.pc = "delay", !.delayLeft = requestDelay]
          /\ UNCHANGED <<isUpdating, activeRuns>>
     ELSE IF HasReport(run)
     THEN /\ run' = [run EXCEPT !.pc = "report"]
          /\ UNCHANGED <<isUpdating, activeRuns>>
     ELSE ReturnFromRun
  /\ UNCHANGED <<updater, items, cachedDialogs, dialogsAge, stats, callsLeft, avars, gvars, hvars, svars,
                 detections, insightHistories>>
  /\ lastCall' = "none"

\* the item loop after await this.processItem(row, dialogsSet) and the
\* counting (and, for an updated row, after the await of the notification,
\* which catches its own errors): the next row, or the end of the run,
\* which sends no report
NextItem ==
  /\ updater = "items"
  /\ run.pc = "batch"
  /\ items[run.i].pc = "done"
  /\ IF run.i < Len(run.results)
     THEN /\ StartItem(run, items, run.i + 1)
          /\ UNCHANGED <<isUpdating, activeRuns>>
     ELSE /\ ReturnFromRun
          /\ UNCHANGED <<items, stats>>
  /\ UNCHANGED <<updater, cachedDialogs, dialogsAge, callsLeft, avars, gvars, hvars, svars,
                 detections, insightHistories>>
  /\ lastCall' = "none"

\* the inter-batch delay is over: the next batch starts
DelayDone ==
  /\ run.pc = "delay"
  /\ run.delayLeft = 0
  /\ StartBatch(run, items, run.i + batchSize)
  /\ UNCHANGED <<updater, isUpdating, cachedDialogs, dialogsAge, callsLeft, activeRuns,
                 avars, gvars, hvars, svars, detections, insightHistories>>
  /\ lastCall' = "none"

\* sendUpdateReport's await notifyAdmin returned (notifyAdmin catches its
\* own errors): performUpdate returns
ReportReturn ==
  /\ run.pc = "report"
  /\ ReturnFromRun
  /\ UNCHANGED <<updater, items, cachedDialogs, dialogsAge, stats, callsLeft, avars, gvars, hvars, svars,
                 detections, insightHistories>>
  /\ lastCall' = "none"

\* time passes: the timers of the sleeping rows and of the inter-batch delay
\* run down, the dialogs cache ages
TickRecon ==
  /\ items' = [k \in 1..Len(items) |->
                 IF items[k].pc = "sleep"
                 THEN [items[k] EXCEPT !.sleepLeft = Max(@ - 1, 0),
                                       !.slept = Min(@ + 1, MaxFlood)]
                 ELSE items[k]]
  /\ run' = [run EXCEPT !.delayLeft = Max(@ - 1, 0),
                        !.elapsed = IF run.pc = "dialogs"
                                    THEN Min(@ + 1, dialogsCacheTTL + 1) ELSE @]
  /\ dialogsAge' = Min(dialogsAge + 1, dialogsCacheTTL + 1)
  /\ UNCHANGED <<updater, isUpdating, cachedDialogs, stats, callsLeft, activeRuns, avars, gvars, hvars, svars,
                 detections, insightHistories>>
  /\ lastCall' = "none"

(* ------------------- Database: the work queue --------------------------- *)
\* maxRetries: options.maxRetries || 3
maxRetriesOf(opt) == IF opt = 0 THEN 3 ELSE opt

backoffUncapped(retries) == 1000 * 2 ^ retries
\* Math.min(1000 * Math.pow(2, retries), 10000)
backoffDelay(retries) == Min(1000 * 2 ^ retries, 10000)

\* the calls: query(sql, params, options) with and without options.maxRetries,
\* ping(), getData(query, params), insertData(table, data) and
\* updateData(table, data, condition)
\* with a table inside or outside allowedTables and empty or non-empty
\* objects
Requests ==
  {[kind |-> "query", opt |-> o, table |-> "", data |-> TRUE, cond |-> TRUE] :
     o \in {0, 5}}
  \cup {[kind |-> "ping", opt |-> 1, table |-> "", data |-> TRUE, cond |-> TRUE]}
  \cup {[kind |-> "getData", opt |-> 0, table |-> "", data |-> TRUE, cond |-> TRUE]}
  \cup {[kind |-> "insert", opt |-> 0, table |-> t, data |-> d, cond |-> TRUE] :
          t \in {"detections", "users"}, d \in BOOLEAN}
  \cup {[kind |-> "update", opt |-> 0, table |-> t, data |-> d, cond |-> c] :
          t \in {"detections", "users"}, d \in BOOLEAN, c \in BOOLEAN}

NoRequest == [kind |-> "", opt |-> 0, table |-> "", data |-> TRUE, cond |-> TRUE]

allowedTables ==
  {"detections", "insightHistories", "pushList", "campaigns", "media",
   "contents", "campaignContents"}

ValidAlways(req) == TRUE
\* the checks at the head of insertData and updateData: data and cond tell
\* whether the object has a key
Valid(req) ==
  /\ req.kind \in {"insert", "update"} => req.table \in allowedTables /\ req.data
  /\ req.kind = "update" => req.cond

IdleTx == [pc |-> "idle", conn |-> FALSE, failure |-> "none"]

\* what the transaction() call that ended in the last step did: failure is
\* the step that failed first, thrown the step whose error the caller got,
\* released the number of connection.release() calls
NoTxDone == [done |-> FALSE, failure |-> "none", thrown |-> "none",
             committed |-> FALSE, rolledBack |-> FALSE, had |-> FALSE,
             released |-> 0]

\* err is the error the catch clause is handling while it awaits the backoff
\* timer
NoExec == [pc |-> "none", no |-> 0, kind |-> "", maxRetries |-> 0,
           conn |-> FALSE, retries |-> 0, waits |-> <<>>, err |-> ""]

isConnectionErrorAlways(o) == TRUE
\* error.fatal || connectionErrors.includes(error.code) ||
\* error.message?.includes('Too many connections')
isConnectionError(o) == o = "connection"

\* what a call gave its caller: outcome is the way the request ended,
\* attempts the executeQuery invocations made for it, waits the backoff
\* delays awaited, threw whether the call threw, value what ping returned,
\* empty whether getData returned [] from its catch clause.  ping and
\* getData catch what query() throws
Summary(no, kind, outcome, attempts, waits) ==
  [no |-> no, kind |-> kind, outcome |-> outcome, attempts |-> attempts,
   waits |-> waits,
   threw |-> kind \notin {"ping", "getData"} /\ outcome # "rows",
   value |-> kind = "ping" /\ outcome = "rows",
   empty |-> kind = "getData" /\ outcome # "rows"]

ShiftedNone(q) == <<>>
\* if (this.queryQueue.length >= this.maxQueueSize) this.queryQueue.shift():
\* the items shift() removes
Shifted(q) == IF Len(q) >= maxQueueSize /\ Len(q) > 0 THEN <<Head(q)>> ELSE <<>>

\* the calls behind a sequence of items: their numbers and kinds
CallsOf(q) == [i \in 1..Len(q) |-> [no |-> q[i].no, kind |-> q[i].kind]]
PushedFront(q, item) ==
  <<item>> \o SubSeq(q, Len(Shifted(q)) + 1, Len(q))
\* the queue after query() pushed the item
Pushed(q, item) ==
  Append(SubSeq(q, Len(Shifted(q)) + 1, Len(q)), item)

StaleNever(item) == FALSE
\* Date.now() - item.timestamp > 30000
Stale(item) == item.age > staleAfter

\* processQueue from the head of its while loop to its next await point (or
\* its end): stale items are rejected, and the first other item is handed to
\* executeQuery, which throws at once without a pool and is otherwise
\* suspended at its await of the checkout race
RECURSIVE Advance(_, _)
Advance(q, done) ==
  IF q = <<>>
  THEN [queue |-> <<>>, exec |-> NoExec, processing |-> FALSE, delaying |-> FALSE,
        settled |-> done]
  ELSE LET item == Head(q)
           rest == Tail(q)
       IN IF Stale(item)
          THEN Advance(rest, Append(done, Summary(item.no, item.kind,
                                                  "queue-timeout", 0, <<>>)))
          ELSE IF pool = "none"
          THEN LET d == Append(done, Summary(item.no, item.kind, "no-pool", 1, <<>>))
               IN IF rest # <<>>
                  THEN [queue |-> rest, exec |-> NoExec, processing |-> TRUE,
                        delaying |-> TRUE, settled |-> d]
                  ELSE [queue |-> <<>>, exec |-> NoExec, processing |-> FALSE,
                        delaying |-> FALSE, settled |-> d]
          ELSE [queue |-> rest,
                exec |-> [NoExec EXCEPT !.pc = "checkout", !.no = item.no,
                                        !.kind = item.kind,
                                        !.maxRetries = item.maxRetries],
                processing |-> TRUE, delaying |-> FALSE, settled |-> done]

\* the loop state after processQueue was run from its head
Resume(q) ==
  LET a == Advance(q, <<>>)
  IN /\ queryQueue' = a.queue
     /\ exec' = a.exec
     /\ isProcessingQueue' = a.processing
     /\ delaying' = a.delaying
     /\ settled' = a.settled

\* processQueue after executeQuery returned or threw: item.resolve or
\* item.reject, then the rate-limit await when the queue is not empty, and
\* otherwise the end of the loop
Finish(outcome) ==
  /\ settled' = <<Summary(exec.no, exec.kind, outcome, exec.retries + 1, exec.waits)>>
  /\ exec' = NoExec
  /\ delaying' = (queryQueue # <<>>)
  /\ isProcessingQueue' = (queryQueue # <<>>)
  /\ UNCHANGED queryQueue

\* a call of query, ping, getData, insertData or updateData
Call(req) ==
  /\ madeCalls < MaxRequests
  /\ madeCalls' = madeCalls + 1
  /\ called' = req
  /\ IF ~Valid(req)
     THEN \* throw new Error(...) before anything else
          /\ settled' = <<Summary(madeCalls + 1, req.kind, "invalid", 0, <<>>)>>
          /\ UNCHANGED <<queryQueue, exec, isProcessingQueue, delaying, orphans>>
     ELSE LET \* insertData and updateData are calls of query() once their
              \* checks passed, and throw what query() throws
              item == [no |-> madeCalls + 1,
                       kind |-> IF req.kind \in {"ping", "getData"}
                                THEN req.kind ELSE "query",
                       maxRetries |-> maxRetriesOf(req.opt), age |-> 0]
          IN /\ orphans' = orphans \o CallsOf(Shifted(queryQueue))
             /\ IF isProcessingQueue
                THEN /\ queryQueue' = Pushed(queryQueue, item)
                     /\ settled' = <<>>
                     /\ UNCHANGED <<exec, isProcessingQueue, delaying>>
                ELSE Resume(Pushed(queryQueue, item))
  /\ txDone' = NoTxDone
  /\ UNCHANGED <<pool, tx, abandoned, leaked, avars, hvars, svars, detections,
                 insightHistories, rvars>>

\* the catch clause of executeQuery: a connection-class error with retries
\* left awaits the backoff timer, still holding the connection of the
\* failed attempt; every other error is thrown after the finally clause
\* released the connection
Fail(connectionClass, outcome) ==
  IF connectionClass /\ exec.retries < exec.maxRetries
  THEN /\ exec' = [exec EXCEPT !.pc = "backoff", !.err = outcome]
       /\ settled' = <<>>
       /\ UNCHANGED <<queryQueue, isProcessingQueue, delaying>>
  ELSE Finish(outcome)

\* executeQuery after await Promise.race([pool.getConnection(), timer]): the
\* pool handed out a connection, getConnection rejected with a
\* connection-class or another error, or the 10 s timer won the race and the
\* getConnection promise stays behind
CheckoutReturn(o) ==
  /\ exec.pc = "checkout"
  /\ o = "granted" => pool = "open"
  /\ IF o = "granted"
     THEN /\ exec' = [exec EXCEPT !.pc = "execute", !.conn = TRUE]
          /\ settled' = <<>>
          /\ UNCHANGED <<queryQueue, isProcessingQueue, delaying>>
     ELSE Fail(isConnectionError(o),
               IF o = "timeout" THEN "checkout-timeout"
               ELSE IF o = "connection" THEN "connection" ELSE "checkout-other")
  /\ abandoned' = IF o = "timeout" THEN abandoned + 1 ELSE abandoned
  /\ txDone' = NoTxDone
  /\ UNCHANGED <<pool, tx, leaked, madeCalls, orphans, avars, hvars, svars, detections,
                 insightHistories, rvars>>
  /\ called' = NoRequest

\* executeQuery after await connection.execute(sql, params): the rows, a
\* connection-class error or another (SQL) error
ExecuteReturn(o) ==
  /\ exec.pc = "execute"
  /\ IF o = "rows" THEN Finish("rows")
     ELSE Fail(isConnectionError(o), o)
  /\ txDone' = NoTxDone
  /\ UNCHANGED <<pool, tx, abandoned, leaked, madeCalls, orphans, avars, hvars, svars,
                 detections, insightHistories, rvars>>
  /\ called' = NoRequest

\* executeQuery after the backoff timer: queryInfo.retries++ and
\* return this.executeQuery(queryInfo), which runs up to its await of the
\* checkout race (or throws without a pool) before the finally clause of
\* this invocation releases the connection of the failed attempt
BackoffDone ==
  /\ exec.pc = "backoff"
  /\ LET e == [exec EXCEPT !.retries = @ + 1,
                           !.waits = Append(@, backoffDelay(exec.retries)),
                           !.conn = FALSE, !.err = ""]
     IN IF pool = "none"
        THEN /\ settled' = <<Summary(e.no, e.kind, "no-pool", e.retries + 1, e.waits)>>
             /\ exec' = NoExec
             /\ delaying' = (queryQueue # <<>>)
             /\ isProcessingQueue' = (queryQueue # <<>>)
        ELSE /\ exec' = [e EXCEPT !.pc = "checkout"]
             /\ settled' = <<>>
             /\ UNCHANGED <<isProcessingQueue, delaying>>
  /\ txDone' = NoTxDone
  /\ UNCHANGED <<pool, queryQueue, tx, abandoned, leaked, madeCalls, orphans,
                 avars, hvars, svars, detections, insightHistories, rvars>>
  /\ called' = NoRequest

\* processQueue after the queryDelay timer
DelayDone_Queue ==
  /\ delaying
  /\ Resume(queryQueue)
  /\ txDone' = NoTxDone
  /\ UNCHANGED <<pool, tx, abandoned, leaked, madeCalls, orphans, avars, hvars, svars,
                 detections, insightHistories, rvars>>
  /\ called' = NoRequest

\* a getConnection promise that lost its race settles: the pool hands it a
\* connection, which no code holds a reference to, or rejects it
AbandonedReturn(granted) ==
  /\ abandoned > 0
  /\ abandoned' = abandoned - 1
  /\ leaked' = IF granted THEN leaked + 1 ELSE leaked
  /\ settled' = <<>>
  /\ txDone' = NoTxDone
  /\ UNCHANGED <<pool, queryQueue, isProcessingQueue, delaying, exec, tx,
                 madeCalls, orphans, avars, hvars, svars, detections, insightHistories, rvars>>
  /\ called' = NoRequest

\* disconnect() up to await this.pool.end(): this.queryQueue = []
DisconnectCall ==
  /\ pool = "open"
  /\ pool' = "ending"
  /\ orphans' = orphans \o CallsOf(queryQueue)
  /\ queryQueue' = <<>>
  /\ settled' = <<>>
  /\ txDone' = NoTxDone
  /\ UNCHANGED <<isProcessingQueue, delaying, exec, tx, abandoned, leaked,
                 madeCalls, avars, hvars, svars, detections, insightHistories, rvars>>
  /\ called' = NoRequest

\* disconnect() after pool.end(): this.pool = null
DisconnectDone ==
  /\ pool = "ending"
  /\ pool' = "none"
  /\ settled' = <<>>
  /\ txDone' = NoTxDone
  /\ UNCHANGED <<queryQueue, isProcessingQueue, delaying, exec, tx, abandoned,
                 leaked, madeCalls, orphans, avars, hvars, svars, detections,
                 insightHistories, rvars>>
  /\ called' = NoRequest

\* time passes: the queued items age by one tick
TickQueue ==
  /\ \E i \in 1..Len(queryQueue) : ~Stale(queryQueue[i])
  /\ queryQueue' = [i \in 1..Len(queryQueue) |->
                      [queryQueue[i] EXCEPT !.age = Min(@ + 1, staleAfter + 1)]]
  /\ settled' = <<>>
  /\ txDone' = NoTxDone
  /\ UNCHANGED <<pool, isProcessingQueue, delaying, exec, tx, abandoned, leaked,
                 madeCalls, orphans, avars, hvars, svars, detections, insightHistories, rvars>>
  /\ called' = NoRequest

(* ------------------- Database: transaction ------------------------------ *)
\* the end of transaction(): the finally clause releases the connection, and
\* the call returns the callback's result or throws
TxEnd(failure, thrown, committed, rolledBack) ==
  /\ txDone' = [done |-> TRUE, failure |-> failure, thrown |-> thrown,
                committed |-> committed, rolledBack |-> rolledBack,
                had |-> tx.conn, released |-> IF tx.conn THEN 1 ELSE 0]
  /\ tx' = IdleTx

\* transaction(callback) up to await this.pool.getConnection(); without a
\* pool the call on null throws inside the try
TxCall ==
  /\ madeCalls < MaxRequests
  /\ tx.pc = "idle"
  /\ madeCalls' = madeCalls + 1
  /\ IF pool = "none"
     THEN TxEnd("checkout", "checkout", FALSE, FALSE)
     ELSE /\ tx' = [IdleTx EXCEPT !.pc = "checkout"]
          /\ txDone' = NoTxDone
  /\ settled' = <<>>
  /\ UNCHANGED <<pool, queryQueue, isProcessingQueue, delaying, exec, abandoned,
                 leaked, orphans, avars, hvars, svars, detections, insightHistories, rvars>>
  /\ called' = NoRequest

\* the catch clause of transaction(): await connection.rollback() when there
\* is a connection, then throw error
TxCatch(failure, conn) ==
  IF conn
  THEN /\ tx' = [tx EXCEPT !.pc = "rollback", !.conn = TRUE, !.failure = failure]
       /\ txDone' = NoTxDone
  ELSE TxEnd(failure, failure, FALSE, FALSE)

\* transaction() after one of its awaits: getConnection, beginTransaction,
\* callback(connection), commit, and rollback in the catch clause
TxStep(ok) ==
  /\ tx.pc \in {"checkout", "begin", "fn", "commit", "rollback"}
  /\ (tx.pc = "checkout" /\ ok) => pool = "open"
  /\ CASE tx.pc = "checkout" ->
            IF ok THEN /\ tx' = [tx EXCEPT !.pc = "begin", !.conn = TRUE]
                       /\ txDone' = NoTxDone
            ELSE TxCatch("checkout", FALSE)
       [] tx.pc = "begin" ->
            IF ok THEN /\ tx' = [tx EXCEPT !.pc = "fn"]
                       /\ txDone' = NoTxDone
            ELSE TxCatch("begin", TRUE)
       [] tx.pc = "fn" ->
            IF ok THEN /\ tx' = [tx EXCEPT !.pc = "commit"]
                       /\ txDone' = NoTxDone
            ELSE TxCatch("fn", TRUE)
       [] tx.pc = "commit" ->
            IF ok THEN TxEnd("none", "none", TRUE, FALSE)
            ELSE TxCatch("commit", TRUE)
       [] tx.pc = "rollback" ->
            IF ok THEN TxEnd(tx.failure, tx.failure, FALSE, TRUE)
            ELSE TxEnd(tx.failure, "rollback", FALSE, FALSE)
  /\ settled' = <<>>
  /\ UNCHANGED <<pool, queryQueue, isProcessingQueue, delaying, exec, abandoned,
                 leaked, madeCalls, orphans, avars, hvars, svars, detections,
                 insightHistories, rvars>>
  /\ called' = NoRequest

(* --------------------------- the specifications ------------------------ *)
(* ------------------- health checks ------------------------------------- *)
\* Observer.healthCheck run by the interval of setupMonitoring ("observer"),
\* the interval callback of AdsFinder.startPeriodicCheck ("periodic"), and
\* AdsFinder.performHealthCheck run by BaseService.setupHealthCheck ("service")
Checkers == {"observer", "periodic", "service"}
Counting == {"observer", "service"}

IdleCheck == [pc |-> "idle", who |-> "none"]
NoCheck == [who |-> "none", failed |-> FALSE, asked |-> FALSE, dbTest |-> FALSE,
            restarted |-> FALSE, alerted |-> FALSE]

\* Database.ping: true when the liveness query gave its row, false otherwise
ping(up, rows) == up /\ rows

\* whether the health check throws.  Observer.healthCheck throws when getMe
\* throws or gives nothing; the failed ping is caught and logged ("Don't throw
\* for database - it's optional").  The periodic check throws when getMe
\* gives nothing and never looks at dbTest.  performHealthCheck throws when
\* getMe gives nothing and logs a warning when the ping failed.
CheckThrows(who, me, dbTest) == ~me

\* the failures in a row after which the checker restarts: the periodic
\* check restarts in its catch clause, the other two count
FailuresToRestart(who) == IF who = "periodic" THEN 1 ELSE maxHealthCheckFailures

\* the connection to the database server is lost for good
DatabaseLost ==
  /\ dbUp
  /\ dbUp' = FALSE
  /\ lastCheck' = NoCheck
  /\ UNCHANGED <<check, healthCheckFailures, streak, avars, detections,
                 insightHistories, rvars, gvars, svars>>

\* an interval fires while no health check is in progress: Observer and
\* performHealthCheck await getMe first, the periodic check awaits
\* Promise.all([getMe(), ping()])
CheckStart(who) ==
  /\ check.pc = "idle"
  /\ check' = [pc |-> IF who = "periodic" THEN "all" ELSE "getMe", who |-> who]
  /\ lastCheck' = NoCheck
  /\ UNCHANGED <<dbUp, healthCheckFailures, streak, avars, detections,
                 insightHistories, rvars, gvars, svars>>

\* the health check of who ends; asked tells whether it pinged the database.
\* A check that passed resets the counter (and the periodic check trims the
\* dedup set and the cache); one that threw counts, and at the threshold the
\* checker restarts: stop() clears the dedup set and the Match Cache, start()
\* connects again.  Observer.start resets healthCheckFailures, BaseService
\* leaves it.  The periodic check notifies the admin before it restarts, and
\* the stop() of the two AdsFinder versions notifies the admin too.
CheckEnds(who, me, asked, dbTest) ==
  LET failed == CheckThrows(who, me, dbTest)
      count == IF who \in Counting
               THEN Min(healthCheckFailures[who] + 1, maxHealthCheckFailures)
               ELSE 1
      restart == failed /\ count >= FailuresToRestart(who)
      cleaned == cleanCacheIfNeeded(queryCache, sinceCleanup)
  IN /\ check' = IdleCheck
     /\ healthCheckFailures' =
          IF who \notin Counting THEN healthCheckFailures
          ELSE [healthCheckFailures EXCEPT
                  ![who] = IF ~failed THEN 0
                           ELSE IF restart /\ who = "observer" THEN 0
                           ELSE count]
     /\ streak' = [streak EXCEPT
                     ![who] = IF restart \/ dbUp THEN 0
                              ELSE IF asked THEN Min(@ + 1, MaxStreak)
                              ELSE @]
     /\ lastCheck' = [who |-> who, failed |-> failed, asked |-> asked,
                      dbTest |-> dbTest, restarted |-> restart,
                      alerted |-> restart /\ who # "observer"]
     /\ IF restart
        THEN /\ processedMessages' = <<>>
             /\ queryCache' = <<>>
             /\ UNCHANGED sinceCleanup
        ELSE IF who = "periodic" /\ ~failed
        THEN /\ processedMessages' = manageProcessedMessagesSize(processedMessages)
             /\ queryCache' = cleaned[1]
             /\ sinceCleanup' = cleaned[2]
        ELSE UNCHANGED <<processedMessages, queryCache, sinceCleanup>>
     /\ UNCHANGED <<dbUp, tasks, eventsLeft, matcher, runs, curRows, lastLookup, errors,
                    detections, insightHistories, rvars, gvars, svars>>

\* await this.telegram.getMe() returns in Observer.healthCheck or in
\* performHealthCheck: nothing (or a throw) ends the check, otherwise the
\* database is pinged
GetMeReturn(me) ==
  /\ check.pc = "getMe"
  /\ IF me
     THEN /\ check' = [check EXCEPT !.pc = "ping"]
          /\ lastCheck' = NoCheck
          /\ UNCHANGED <<dbUp, healthCheckFailures, streak, avars, detections,
                         insightHistories, rvars, gvars, svars>>
     ELSE CheckEnds(check.who, FALSE, FALSE, FALSE)

\* await this.database.ping() returns in Observer.healthCheck or in
\* performHealthCheck
PingReturn(rows) ==
  /\ check.pc = "ping"
  /\ CheckEnds(check.who, TRUE, TRUE, ping(dbUp, rows))

\* await Promise.all([getMe(), ping()]) returns in the periodic check
AllReturn(me, rows) ==
  /\ check.pc = "all"
  /\ CheckEnds(check.who, me, TRUE, ping(dbUp, rows))

\* no health check runs
InitObserver ==
  /\ dbUp = TRUE
  /\ check = IdleCheck
  /\ healthCheckFailures = [w \in Counting |-> 0]
  /\ streak = [w \in Checkers |-> 0]
  /\ lastCheck = NoCheck

(* ------------------- BaseService: start, stop, restart ---------------- *)
\* the engine after start(): running, with the health-check timer of
\* setupHealthCheck and the event handler of setupEventListeners.
\* healthCheckInterval and eventHandler tell whether the field holds a
\* live timer and a registered handler; timers and handlers count the live
\* health-check timers and the handlers registered with the client,
\* initializing the invocations of initialize() in progress, restarts the
\* calls of restart() so far; chains holds, per interval callback in
\* progress, the await it is suspended at.  row counts the checks that
\* failed in a row since the last check that passed and the last restart(),
\* restartedAfter is its value at the last call of restart() (history)
StartedService ==
  [isRunning |-> TRUE, healthCheckInterval |-> TRUE, eventHandler |-> TRUE,
   healthCheckFailures |-> 0, timers |-> 1, handlers |-> 1, initializing |-> 0,
   chains |-> <<>>, restarts |-> 0, row |-> 0, restartedAfter |-> 0]

ChainIds == 1..Len(service.chains)

\* stop() up to await this.notifications.notifyAdmin(...) in cleanup():
\* isRunning = false, clearAllIntervals(), removeEventListeners()
Stopping(sv) ==
  [sv EXCEPT !.isRunning = FALSE,
             !.timers = IF sv.healthCheckInterval THEN @ - 1 ELSE @,
             !.healthCheckInterval = FALSE,
             !.handlers = IF sv.eventHandler THEN @ - 1 ELSE @,
             !.eventHandler = FALSE]

\* a health-check timer fires: the callback returns at once unless the
\* service is running, and otherwise awaits performHealthCheck()
HealthTimerFires ==
  /\ service.timers > 0
  /\ service.isRunning
  /\ Len(service.chains) < MaxChains
  /\ service' = [service EXCEPT !.chains = Append(@, "check")]
  /\ UNCHANGED <<avars, detections, insightHistories, rvars, gvars, hvars,
                 observer, connecting>>

\* the callback after performHealthCheck() returned (ok) or threw: the
\* counter is reset or incremented, and at the threshold
\* handleHealthCheckFailure calls restart(), whose stop() returns at once
\* when the service is not running
HealthCheckReturn(c, ok) ==
  LET failures == service.healthCheckFailures + 1
      toRestart == ~ok /\ failures >= maxHealthCheckFailures
      counted == [service EXCEPT !.healthCheckFailures = IF ok THEN 0 ELSE failures,
                                 !.row = IF ok THEN 0 ELSE Min(@ + 1, maxHealthCheckFailures)]
      calling == [counted EXCEPT !.restarts = @ + 1, !.restartedAfter = counted.row,
                                !.row = 0]
  IN /\ service.chains[c] = "check"
     /\ toRestart => service.restarts < MaxRestarts
     /\ service' =
          IF ~toRestart THEN [counted EXCEPT !.chains = Remove(@, c)]
          ELSE IF ~service.isRunning
          THEN [calling EXCEPT !.chains[c] = "sleep"]
          ELSE [Stopping(calling) EXCEPT !.chains[c] = "cleanup"]
     /\ UNCHANGED <<avars, detections, insightHistories, rvars, gvars, hvars,
                    observer, connecting>>

\* cleanup() after its await: processedMessages.clear(), queryCache.clear();
\* stop() returns and restart() awaits its 5 s timer
CleanupReturn(c) ==
  /\ service.chains[c] = "cleanup"
  /\ service' = [service EXCEPT !.chains[c] = "sleep"]
  /\ processedMessages' = <<>>
  /\ queryCache' = <<>>
  /\ UNCHANGED <<sinceCleanup, tasks, eventsLeft, matcher, runs, curRows, lastLookup,
                 errors, detections, insightHistories, rvars, gvars, hvars,
                 observer, connecting>>

\* restart() after its timer: start() returns at once when the service is
\* running, and otherwise awaits initialize(), which awaits getMe()
SleepReturn(c) ==
  /\ service.chains[c] = "sleep"
  /\ service' =
       IF service.isRunning THEN [service EXCEPT !.chains = Remove(@, c)]
       ELSE [service EXCEPT !.chains[c] = "init", !.initializing = @ + 1]
  /\ UNCHANGED <<avars, detections, insightHistories, rvars, gvars, hvars,
                 observer, connecting>>

\* initialize() after await this.telegram.getMe(): without a user it throws,
\* start() rethrows and nothing catches; otherwise the database test (which
\* catches its errors), setupEventListeners() and the await of the admin
\* notification
InitGetMeReturn(c, me) ==
  /\ service.chains[c] = "init"
  /\ service' =
       IF me
       THEN [service EXCEPT !.chains[c] = "announce", !.handlers = @ + 1,
                            !.eventHandler = TRUE]
       ELSE [service EXCEPT !.chains = Remove(@, c), !.initializing = @ - 1]
  /\ UNCHANGED <<avars, detections, insightHistories, rvars, gvars, hvars,
                 observer, connecting>>

\* start() after await this.initialize(): isRunning = true and
\* setupHealthCheck(), which sets a new interval without clearing one
AnnounceReturn(c) ==
  /\ service.chains[c] = "announce"
  /\ service' = [service EXCEPT !.chains = Remove(@, c), !.initializing = @ - 1,
                                !.isRunning = TRUE, !.timers = @ + 1,
                                !.healthCheckInterval = TRUE]
  /\ UNCHANGED <<avars, detections, insightHistories, rvars, gvars, hvars,
                 observer, connecting>>

\* ---- Observer: start, monitoring, handleError, restart, shutdown ----

\* Observer after a start() that succeeded.  chains holds, per async call
\* chain in progress, the await it is suspended at (pc) and whether it is
\* inside the restart() that set isRestarting; exited is process.exit
\* called; failedRestarts counts the starts made by restart() that failed
\* in a row, up to maxRestartAttempts + 1 (history)
StartedObserver ==
  [isRunning |-> TRUE, isRestarting |-> FALSE, restartAttempts |-> 0,
   shutdownInProgress |-> FALSE, healthCheckFailures |-> 0,
   healthCheckInterval |-> TRUE, signalHandlers |-> TRUE, exited |-> FALSE,
   chains |-> <<>>, failedRestarts |-> 0]

\* Observer after construction, with the start() of startAndLoop suspended at
\* await this.app.run()
StartingObserver ==
  [StartedObserver EXCEPT !.isRunning = FALSE, !.healthCheckInterval = FALSE,
                          !.signalHandlers = FALSE,
                          !.chains = <<[pc |-> "run", inRestart |-> FALSE]>>]

ObserverChains == 1..Len(observer.chains)

\* chain c returns to the event loop, through the finally of restart() when
\* it is inside the restart that set isRestarting
EndChain(ob, c) ==
  [ob EXCEPT !.chains = Remove(@, c),
             !.isRestarting = IF ob.chains[c].inRestart THEN FALSE ELSE @]

\* restart() up to await this.app.cleanup(): it returns at once during a
\* restart or a shutdown, exits the process at maxRestartAttempts, and
\* otherwise counts the attempt
restart(ob, c) ==
  IF ob.isRestarting \/ ob.shutdownInProgress THEN EndChain(ob, c)
  ELSE IF ob.restartAttempts >= maxRestartAttempts
  THEN [ob EXCEPT !.isRestarting = TRUE, !.exited = TRUE, !.chains = <<>>]
  ELSE [ob EXCEPT !.isRestarting = TRUE, !.restartAttempts = @ + 1,
                  !.chains[c] = [pc |-> "cleanup", inRestart |-> TRUE]]

\* handleError(): nothing during a shutdown, otherwise the admin is told
\* (errors caught) and restart() is awaited
handleError(ob, c) ==
  IF ob.shutdownInProgress THEN EndChain(ob, c) ELSE restart(ob, c)

\* start() after await this.app.run(): on success isRunning = true,
\* setupMonitoring() and setupSignalHandlers(); on failure the catch awaits
\* handleError()
ObserverRunReturn(c, ok) ==
  /\ ~observer.exited
  /\ observer.chains[c].pc = "run"
  /\ observer' =
       IF ok
       THEN EndChain([observer EXCEPT
                        !.isRunning = TRUE, !.healthCheckInterval = TRUE,
                        !.signalHandlers = @ \/ ~observer.shutdownInProgress,
                        !.failedRestarts = 0], c)
       ELSE handleError([observer EXCEPT
                           !.failedRestarts =
                             IF observer.chains[c].inRestart
                             THEN Min(@ + 1, maxRestartAttempts + 1) ELSE @], c)
  /\ UNCHANGED <<avars, detections, insightHistories, rvars, gvars, hvars,
                 service, connecting>>

\* the health-check interval fires: the callback returns at once unless
\* Observer is running, not shutting down and not restarting, and otherwise
\* awaits healthCheck()
MonitorTimerFires ==
  /\ ~observer.exited
  /\ observer.healthCheckInterval
  /\ observer.isRunning /\ ~observer.shutdownInProgress /\ ~observer.isRestarting
  /\ Len(observer.chains) < MaxChains
  /\ observer' = [observer EXCEPT
                    !.chains = Append(@, [pc |-> "check", inRestart |-> FALSE])]
  /\ UNCHANGED <<avars, detections, insightHistories, rvars, gvars, hvars,
                 service, connecting>>

\* the callback after healthCheck() returned (ok) or threw
MonitorCheckReturn(c, ok) ==
  LET counted == [observer EXCEPT !.healthCheckFailures = IF ok THEN 0 ELSE @ + 1]
  IN /\ ~observer.exited
     /\ observer.chains[c].pc = "check"
     /\ observer' =
          IF ~ok /\ counted.healthCheckFailures >= maxHealthCheckFailures
          THEN restart(counted, c)
          ELSE EndChain(counted, c)
     /\ UNCHANGED <<avars, detections, insightHistories, rvars, gvars, hvars,
                    service, connecting>>

\* restart() after await this.app.cleanup(): isRunning = false, the
\* intervals are cleared, and the backoff timer is awaited
RestartCleanupReturn(c) ==
  /\ ~observer.exited
  /\ observer.chains[c].pc = "cleanup"
  /\ observer' = [observer EXCEPT !.isRunning = FALSE,
                                  !.healthCheckInterval = FALSE,
                                  !.chains[c].pc = "backoff"]
  /\ UNCHANGED <<avars, detections, insightHistories, rvars, gvars, hvars,
                 service, connecting>>

\* restart() after its backoff: start() returns at once when Observer is
\* running, and otherwise resets both counters and awaits app.run()
RestartWaitDone(c) ==
  /\ ~observer.exited
  /\ observer.chains[c].pc = "backoff"
  /\ observer' =
       IF observer.isRunning THEN EndChain(observer, c)
       ELSE [observer EXCEPT !.restartAttempts = 0, !.healthCheckFailures = 0,
                             !.chains[c].pc = "run"]
  /\ UNCHANGED <<avars, detections, insightHistories, rvars, gvars, hvars,
                 service, connecting>>

\* uncaughtException or unhandledRejection with the handlers of
\* setupSignalHandlers installed, raised by the running application or by a
\* call chain in progress: nothing during a shutdown, otherwise the admin is
\* told (errors caught) and handleError() is awaited
Uncaught ==
  /\ ~observer.exited
  /\ observer.signalHandlers
  /\ observer.isRunning \/ observer.chains # <<>>
  /\ ~observer.shutdownInProgress
  /\ Len(observer.chains) < MaxChains
  /\ observer' =
       handleError([observer EXCEPT
                      !.chains = Append(@, [pc |-> "uncaught", inRestart |-> FALSE])],
                   Len(observer.chains) + 1)
  /\ UNCHANGED <<avars, detections, insightHistories, rvars, gvars, hvars,
                 service, connecting>>

\* SIGINT or SIGTERM with the handlers of setupSignalHandlers installed:
\* shutdownInProgress = true, the intervals are cleared, isRunning = false,
\* and the notification and app.cleanup() are awaited
Signal ==
  /\ ~observer.exited
  /\ observer.signalHandlers
  /\ ~observer.shutdownInProgress
  /\ observer' = [observer EXCEPT
                    !.shutdownInProgress = TRUE, !.healthCheckInterval = FALSE,
                    !.isRunning = FALSE,
                    !.chains = Append(@, [pc |-> "shutdown", inRestart |-> FALSE])]
  /\ UNCHANGED <<avars, detections, insightHistories, rvars, gvars, hvars,
                 service, connecting>>

\* shutdown after its awaits: process.exit(0)
ShutdownReturn(c) ==
  /\ ~observer.exited
  /\ observer.chains[c].pc = "shutdown"
  /\ observer' = [observer EXCEPT !.exited = TRUE, !.chains = <<>>]
  /\ UNCHANGED <<avars, detections, insightHistories, rvars, gvars, hvars,
                 service, connecting>>

\* ---- Database.connect ----

\* the two Database classes: src/Database/Database.js retries connect(),
\* the Database of part_000 does not
DatabaseVersions == {"Database", "part_000"}

NoConnectDone == [outcome |-> "none", attempts |-> 0, isConnected |-> TRUE]

\* a connected Database with no connect() in progress.  calls holds, per
\* call of connect() in progress, the await it is suspended at, the
\* attempts it has made (history) and the delay it waits for; made counts
\* the calls so far, done is what the last call that ended returned or
\* threw, with its attempts and isConnected at that moment (history)
NoConnect ==
  [version |-> "Database", isConnected |-> TRUE, retryCount |-> 0,
   calls |-> <<>>, made |-> 0, done |-> NoConnectDone]

\* a Database after construction
ConstructedDatabase(v) ==
  [NoConnect EXCEPT !.version = v, !.isConnected = FALSE]

ConnectCalls == 1..Len(connecting.calls)

\* connect() is called: the pool is created and getConnection() awaited
ConnectCall ==
  /\ connecting.made < MaxConnects
  /\ Len(connecting.calls) < MaxChains
  /\ connecting' = [connecting EXCEPT
                      !.made = @ + 1,
                      !.calls = Append(@, [pc |-> "attempt", attempts |-> 1,
                                           delay |-> 0])]
  /\ UNCHANGED <<avars, detections, insightHistories, rvars, gvars, hvars,
                 service, observer>>

\* connect() after the test of the connection: on success isConnected =
\* true (and retryCount = 0) and it returns true; on failure
\* isConnected = false, and it throws unless it is the Database that
\* retries with retryCount < maxRetries, which counts and awaits retryDelay
ConnectAttemptReturn(c, ok) ==
  LET call == connecting.calls[c]
      ended(out, con) ==
        [con EXCEPT !.calls = Remove(@, c),
                    !.done = [outcome |-> out, attempts |-> call.attempts,
                              isConnected |-> con.isConnected]]
  IN /\ call.pc = "attempt"
     /\ connecting' =
          IF ok
          THEN ended("true", [connecting EXCEPT
                                !.isConnected = TRUE,
                                !.retryCount =
                                  IF connecting.version = "Database" THEN 0 ELSE @])
          ELSE IF connecting.version = "Database" /\ connecting.retryCount < maxRetries
          THEN [connecting EXCEPT !.isConnected = FALSE, !.retryCount = @ + 1,
                                  !.calls[c].pc = "delay",
                                  !.calls[c].delay = retryDelay]
          ELSE ended("throws", [connecting EXCEPT !.isConnected = FALSE])
     /\ UNCHANGED <<avars, detections, insightHistories, rvars, gvars, hvars,
                    service, observer>>

\* connect() after its delay: return this.connect(), the next attempt
RetryDelayDone(c) ==
  /\ connecting.calls[c].pc = "delay"
  /\ connecting' = [connecting EXCEPT !.calls[c].pc = "attempt",
                                      !.calls[c].attempts = @ + 1]
  /\ UNCHANGED <<avars, detections, insightHistories, rvars, gvars, hvars,
                 service, observer>>


\* the engine and Observer started, no connect() in progress
InitLifecycle ==
  /\ service = StartedService
  /\ observer = StartedObserver
  /\ connecting = NoConnect

vars == <<avars, detections, insightHistories, rvars, gvars, hvars, svars>>

\* AdsFinder after construction and start()
InitAdsFinder ==
  /\ processedMessages = <<>>
  /\ queryCache = <<>>
  /\ sinceCleanup = 0
  /\ tasks = <<>>
  /\ runs = [k \in Keys |-> 0]
  /\ curRows = [k \in Keys |-> 0]
  /\ lastLookup = NoLookup
  /\ errors = NoErrors

\* Database after construction and connect(); in the specifications of the
\* engines no call is left to make
InitDatabase ==
  /\ pool = "open"
  /\ queryQueue = <<>>
  /\ isProcessingQueue = FALSE
  /\ delaying = FALSE
  /\ exec = NoExec
  /\ tx = IdleTx
  /\ abandoned = 0
  /\ leaked = 0
  /\ orphans = <<>>
  /\ called = NoRequest
  /\ settled = <<>>
  /\ txDone = NoTxDone

\* ViewUpdater between two runs, with a cache older than dialogsCacheTTL
ViewUpdaterWith(dialogs) ==
  /\ isUpdating = FALSE
  /\ run = IdleRun
  /\ items = <<>>
  /\ cachedDialogs = dialogs
  /\ dialogsAge = dialogsCacheTTL + 1
  /\ stats = [notMemberChannels |-> {}]
  /\ activeRuns = 0
  /\ lastCall = "none"

\* ViewUpdater after construction
InitViewUpdater == ViewUpdaterWith(<<>>)

\* the Detection Engine, started on a store that holds the detections of an
\* earlier session
InitDetect ==
  /\ InitAdsFinder
  /\ matcher \in Matchers
  /\ updater = "batches"
  /\ InitObserver
  /\ InitLifecycle
  /\ InitViewUpdater
  /\ eventsLeft = MaxEvents
  /\ callsLeft = 0
  /\ InitDatabase
  /\ madeCalls = MaxRequests
  /\ detections = EarlierDetections
  /\ insightHistories = <<>>

NextDetect ==
  \/ \E e \in PostEvents : NewPost(e)
  \/ \E e \in DeleteEvents : Deleted(e)
  \/ Malformed
  \/ \E t \in TaskIds, ok \in BOOLEAN : QueryReturn(t, ok)
  \/ \E t \in TaskIds, meta \in BOOLEAN, ok \in BOOLEAN, notify \in BOOLEAN :
       InsertReturn(t, meta, ok, notify)
  \/ \E t \in TaskIds, ok \in BOOLEAN : DelQueryReturn(t, ok)
  \/ \E t \in TaskIds :
       \E okset \in SUBSET (1..Len(tasks[t].rows)) : DelInsertReturn(t, okset)
  \/ TickDetect

SpecDetect == InitDetect /\ [][NextDetect]_vars

\* what a Detection Engine that has run for a while holds: the dedup set at
\* its cap, with post 1 of channel 7777 as the newest key after posts that
\* are not seen again, and the cache at its size bound with the results of
\* lookups for origins that are not seen again, the oldest one expired or not
EarlierKeys ==
  [i \in 1..maxProcessedMessages |->
     IF i = maxProcessedMessages THEN messageKey(Bare(7777), 1)
     ELSE messageKey(Bare(7777), 10 + i)]
EarlierEntry(i, age) ==
  [key |-> <<Bare(5550), i>>, result |-> NoResult, age |-> age, by |-> Bare(7777)]
EarlierCaches ==
  {[i \in 1..maxCacheSize |-> EarlierEntry(i, IF i = 1 THEN a ELSE 0)] :
     a \in {0, CACHE_TTL + 1}}

InitLongRun ==
  /\ processedMessages = EarlierKeys
  /\ queryCache \in EarlierCaches
  /\ sinceCleanup = 0
  /\ tasks = <<>>
  /\ runs = [k \in Keys |-> 0]
  /\ curRows = [k \in Keys |-> 0]
  /\ lastLookup = NoLookup
  /\ errors = NoErrors
  /\ matcher \in Matchers
  /\ updater = "batches"
  /\ InitObserver
  /\ InitLifecycle
  /\ InitViewUpdater
  /\ eventsLeft = MaxEvents
  /\ callsLeft = 0
  /\ InitDatabase
  /\ madeCalls = MaxRequests
  /\ detections = EarlierDetections
  /\ insightHistories = <<>>

SpecLongRun == InitLongRun /\ [][NextDetect]_vars

\* the Reconciliation Engine, started on a store that holds detections and
\* the row an earlier run left for placement 1, with the dialogs cache as
\* constructed or as that run left it
InitRecon ==
  /\ InitAdsFinder
  /\ matcher = "AdsFinder"
  /\ updater = "batches"
  /\ InitObserver
  /\ InitLifecycle
  /\ \E d \in EarlierDialogs : ViewUpdaterWith(d)
  /\ eventsLeft = 0
  /\ callsLeft = MaxCalls
  /\ InitDatabase
  /\ madeCalls = MaxRequests
  /\ detections = StoredDetections
  /\ insightHistories = EarlierInsights

NextRecon ==
  \/ PerformUpdate
  \/ \E ok \in BOOLEAN : RunQueryReturn(ok)
  \/ \E o \in DialogOutcomes : DialogsReturn(o)
  \/ \E k \in ItemIds, ok \in BOOLEAN : ItemDetReturn(k, ok)
  \/ \E k \in ItemIds :
       \E ans \in MessageAnswers(run.results[k].pushId) : ItemMsgReturn(k, ans)
  \/ \E k \in ItemIds, ok \in BOOLEAN : ItemInsReturn(k, ok)
  \/ \E k \in ItemIds : ItemSleepDone(k)
  \/ BatchDone
  \/ DelayDone
  \/ ReportReturn
  \/ TickRecon

SpecRecon == InitRecon /\ [][NextRecon]_vars

\* the Reconciliation Engine with either ViewUpdater
InitUpdaters ==
  /\ InitAdsFinder
  /\ matcher = "AdsFinder"
  /\ updater \in Updaters
  /\ InitObserver
  /\ InitLifecycle
  /\ \E d \in EarlierDialogs : ViewUpdaterWith(d)
  /\ eventsLeft = 0
  /\ callsLeft = MaxCalls
  /\ InitDatabase
  /\ madeCalls = MaxRequests
  /\ detections = StoredDetections
  /\ insightHistories = EarlierInsights

NextUpdaters ==
  \/ NextRecon
  \/ NextItem

SpecUpdaters == InitUpdaters /\ [][NextUpdaters]_vars

\* the request of the run's query is removed from the work queue of the
\* Database before processQueue took it (query() made room in a full queue,
\* or disconnect() emptied the queue): nothing holds its resolve and reject
\* any more, and performUpdate stays at await this.database.getData(query)
RequestDropped ==
  /\ run.pc = "query"
  /\ run' = [run EXCEPT !.pc = "lost"]
  /\ lastCall' = "none"
  /\ UNCHANGED <<updater, isUpdating, items, cachedDialogs, dialogsAge, stats,
                 callsLeft, activeRuns, avars, gvars, hvars, svars, detections,
                 insightHistories>>

\* the Reconciliation Engine on the queued Database
NextReconQueued ==
  \/ NextRecon
  \/ RequestDropped

\* every awaited call that is answered and every timer comes back to the
\* event loop, the interval timer that calls performUpdate included
FairRecon ==
  /\ WF_vars(PerformUpdate)
  /\ WF_vars(\E ok \in BOOLEAN : RunQueryReturn(ok))
  /\ WF_vars(\E o \in DialogOutcomes : DialogsReturn(o))
  /\ WF_vars(\E k \in ItemIds, ok \in BOOLEAN : ItemDetReturn(k, ok))
  /\ WF_vars(\E k \in ItemIds :
               \E ans \in MessageAnswers(run.results[k].pushId) :
                 ItemMsgReturn(k, ans))
  /\ WF_vars(\E k \in ItemIds, ok \in BOOLEAN : ItemInsReturn(k, ok))
  /\ WF_vars(\E k \in ItemIds : ItemSleepDone(k))
  /\ WF_vars(BatchDone)
  /\ WF_vars(DelayDone)
  /\ WF_vars(ReportReturn)
  /\ WF_vars(TickRecon)

SpecReconQueued == InitRecon /\ [][NextReconQueued]_vars /\ FairRecon

\* Database under load: a query() call is in execution, waiting for its
\* connection, and a ping() call made right after it is queued
LoadedDatabase ==
  /\ pool = "open"
  /\ exec = [NoExec EXCEPT !.pc = "checkout", !.no = 1, !.kind = "query",
                           !.maxRetries = maxRetriesOf(0)]
  /\ queryQueue = <<[no |-> 2, kind |-> "ping", maxRetries |-> maxRetriesOf(1),
                     age |-> 0]>>
  /\ isProcessingQueue = TRUE
  /\ delaying = FALSE
  /\ tx = IdleTx
  /\ abandoned = 0
  /\ leaked = 0
  /\ orphans = <<>>
  /\ called = NoRequest
  /\ settled = <<>>
  /\ txDone = NoTxDone

\* the Storage Gateway, with both engines at rest
InitGateway ==
  /\ InitAdsFinder
  /\ matcher = "AdsFinder"
  /\ updater = "batches"
  /\ InitObserver
  /\ InitLifecycle
  /\ InitViewUpdater
  /\ eventsLeft = 0
  /\ callsLeft = 0
  /\ detections = StoredDetections
  /\ insightHistories = EarlierInsights
  /\ LoadedDatabase
  /\ madeCalls = Len(queryQueue) + 1

\* the Storage Gateway at rest, before a call of transaction()
InitTransaction ==
  /\ InitAdsFinder
  /\ matcher = "AdsFinder"
  /\ updater = "batches"
  /\ InitObserver
  /\ InitLifecycle
  /\ InitViewUpdater
  /\ eventsLeft = 0
  /\ callsLeft = 0
  /\ detections = StoredDetections
  /\ insightHistories = EarlierInsights
  /\ InitDatabase
  /\ madeCalls = 0

NextGateway ==
  \/ \E req \in Requests : Call(req)
  \/ \E o \in {"granted", "connection", "other", "timeout"} : CheckoutReturn(o)
  \/ \E o \in {"rows", "connection", "semantic"} : ExecuteReturn(o)
  \/ BackoffDone
  \/ DelayDone_Queue
  \/ \E granted \in BOOLEAN : AbandonedReturn(granted)
  \/ DisconnectCall
  \/ DisconnectDone
  \/ TickQueue

SpecGateway == InitGateway /\ [][NextGateway]_vars

\* transaction() does not go through the work queue: its calls form a
\* specification of their own
NextTransaction ==
  \/ TxCall
  \/ \E ok \in BOOLEAN : TxStep(ok)
  \/ DisconnectCall
  \/ DisconnectDone

SpecTransaction == InitTransaction /\ [][NextTransaction]_vars

\* the health checks of a running process whose database may be lost
InitHealth ==
  /\ InitAdsFinder
  /\ matcher = "AdsFinder"
  /\ updater = "batches"
  /\ InitObserver
  /\ InitLifecycle
  /\ InitViewUpdater
  /\ eventsLeft = 0
  /\ callsLeft = 0
  /\ detections = StoredDetections
  /\ insightHistories = EarlierInsights
  /\ InitDatabase
  /\ madeCalls = MaxRequests

NextHealth ==
  \/ DatabaseLost
  \/ \E who \in Checkers : CheckStart(who)
  \/ \E me \in BOOLEAN : GetMeReturn(me)
  \/ \E rows \in BOOLEAN : PingReturn(rows)
  \/ \E me \in BOOLEAN, rows \in BOOLEAN : AllReturn(me, rows)

SpecHealth == InitHealth /\ [][NextHealth]_vars

\* the engine derived from BaseService under its health checks
InitService ==
  /\ InitAdsFinder
  /\ matcher = "BaseService"
  /\ updater = "batches"
  /\ InitObserver
  /\ InitLifecycle
  /\ InitViewUpdater
  /\ eventsLeft = 0
  /\ callsLeft = 0
  /\ InitDatabase
  /\ madeCalls = MaxRequests
  /\ detections = EarlierDetections
  /\ insightHistories = <<>>

NextService ==
  \/ HealthTimerFires
  \/ \E c \in ChainIds, ok \in BOOLEAN : HealthCheckReturn(c, ok)
  \/ \E c \in ChainIds : CleanupReturn(c)
  \/ \E c \in ChainIds : SleepReturn(c)
  \/ \E c \in ChainIds, me \in BOOLEAN : InitGetMeReturn(c, me)
  \/ \E c \in ChainIds : AnnounceReturn(c)

SpecService == InitService /\ [][NextService]_vars

\* Observer from startAndLoop on
InitStarting ==
  /\ InitAdsFinder
  /\ matcher = "AdsFinder"
  /\ updater = "batches"
  /\ InitObserver
  /\ service = StartedService
  /\ observer = StartingObserver
  /\ connecting = NoConnect
  /\ InitViewUpdater
  /\ eventsLeft = 0
  /\ callsLeft = 0
  /\ InitDatabase
  /\ madeCalls = MaxRequests
  /\ detections = EarlierDetections
  /\ insightHistories = <<>>

NextStarting ==
  \/ \E c \in ObserverChains, ok \in BOOLEAN : ObserverRunReturn(c, ok)
  \/ MonitorTimerFires
  \/ \E c \in ObserverChains, ok \in BOOLEAN : MonitorCheckReturn(c, ok)
  \/ \E c \in ObserverChains : RestartCleanupReturn(c)
  \/ \E c \in ObserverChains : RestartWaitDone(c)
  \/ Uncaught
  \/ Signal
  \/ \E c \in ObserverChains : ShutdownReturn(c)

SpecStarting == InitStarting /\ [][NextStarting]_vars

\* the calls of connect() on a Database after construction
InitConnect ==
  /\ InitAdsFinder
  /\ matcher = "AdsFinder"
  /\ updater = "batches"
  /\ InitObserver
  /\ service = StartedService
  /\ observer = StartedObserver
  /\ \E v \in DatabaseVersions : connecting = ConstructedDatabase(v)
  /\ InitViewUpdater
  /\ eventsLeft = 0
  /\ callsLeft = 0
  /\ InitDatabase
  /\ madeCalls = MaxRequests
  /\ detections = EarlierDetections
  /\ insightHistories = <<>>

NextConnect ==
  \/ ConnectCall
  \/ \E c \in ConnectCalls, ok \in BOOLEAN : ConnectAttemptReturn(c, ok)
  \/ \E c \in ConnectCalls : RetryDelayDone(c)

SpecConnect == InitConnect /\ [][NextConnect]_vars

(* ------------------- properties of the Detection Engine ---------------- *)
\* C1: while a (hosting channel, message id) key is in the dedup set, the
\* pipeline beyond the dedup check has run exactly once for it, however many
\* new-post events with that key were delivered and however the handlers
\* interleaved, and at most one PLACEMENT row was inserted by it.
C1_DedupOnce ==
  \A k \in Range(processedMessages) : runs[k] = 1 /\ curRows[k] <= 1

\* a duplicate of a post is dropped while the handler of the first delivery
\* is still suspended at its query
C1_Witness ==
  /\ lastLookup.kind = "dup"
  /\ \E t \in TaskIds :
       /\ tasks[t].ch = lastLookup.ch /\ tasks[t].id = lastLookup.id
       /\ tasks[t].pc = "query"

\* C2: every PLACEMENT row recorded for an incoming forwarded post has the
\* message id of that post as its observed post id and the date of that
\* post as its action time, whether the match came from the database or
\* from the Match Cache.
C2_RowOfIncomingPost ==
  \A i \in 1..Len(detections) :
    detections[i].type = "PLACEMENT" =>
      /\ detections[i].postId = detections[i].srcId
      /\ detections[i].actionTime = DateOf(detections[i].srcId) * 1000

\* C3: a lookup that reports a placement with an edited-message id set was
\* asked for an id of that set, one that reports a placement without an
\* edited record was asked for its Content's forward-origin id; in channel
\* 7777 (placement 2: edited ids 101 and 205, origin id 50; placement 1: no
\* edited record, origin id 900) origin message 205 matches placement 2,
\* origin message 900 matches placement 1 and origin message 50 matches
\* nothing.
C3_EditedIdsRule ==
  /\ (lastLookup.kind \in {"db", "hit"} /\ lastLookup.detected) =>
       LET r == PushRow(lastLookup.pushId)
       IN IF r.editedContentMessageIds.kind = "array"
          THEN lastLookup.fromMsg \in Range(r.editedContentMessageIds.ids)
          ELSE lastLookup.fromMsg
                 = OrNum(r.baseContentMessageId, r.notForwardedMessageId)
  /\ (/\ lastLookup.kind = "db" /\ lastLookup.dbok
      /\ lastLookup.ch = Bare(7777) /\ lastLookup.fromCh = Bare(5551)) =>
       /\ lastLookup.fromMsg = 205 =>
            lastLookup.detected /\ lastLookup.pushId = 2
       /\ lastLookup.fromMsg = 900 =>
            lastLookup.detected /\ lastLookup.pushId = 1
       /\ lastLookup.fromMsg = 50 => ~lastLookup.detected

\* the database lookup for origin message 205 in channel 7777 has returned
C3_Witness ==
  /\ lastLookup.kind = "db" /\ lastLookup.dbok
  /\ lastLookup.ch = Bare(7777) /\ lastLookup.fromMsg = 205
  /\ lastLookup.detected /\ lastLookup.pushId = 2

C7_RemoveFromPlacementOnly ==
  \A i \in 1..Len(detections) :
    detections[i].type = "REMOVE" => detections[i].basis = "PLACEMENT"

RowsOfRun(pushId) ==
  {i \in 1..Len(insightHistories) :
     insightHistories[i].run = run.no /\ insightHistories[i].pushId = pushId}

\* C5: in a run, a placement whose channel id is in the visible-channel-id
\* set neither with the prefix nor bare gets no detection lookup, no
\* getMessages call and no InsightHistory row.
C5_NotMemberUntouched ==
  \A k \in ItemIds :
    LET m == run.results[k].mediaIdentifier
    IN (Pref(m.n) \notin run.dialogsSet /\ Bare(m.n) \notin run.dialogsSet) =>
         /\ items[k].lookups = 0
         /\ items[k].fetches = 0
         /\ RowsOfRun(run.results[k].pushId) = {}

\* a run has ended in which one placement was skipped as not-member and
\* another one got its row
C5_Witness ==
  /\ run.pc = "idle"
  /\ \E k \in ItemIds : items[k].out = "notMember"
  /\ \E j \in ItemIds : items[j].out = "success" /\ items[j].inserted

C8_FloodWait ==
  /\ \A k \in ItemIds :
       items[k].need > 0 =>
         /\ items[k].out \in {"none", "floodWait"}
         /\ items[k].out = "floodWait" => items[k].slept >= items[k].need
         /\ items[k].fetches = 1
         /\ RowsOfRun(run.results[k].pushId) = {}
  /\ run.updatedCount = Cardinality({k \in ItemIds : items[k].out = "success"})
  /\ (run.pc = "idle" /\ \E k \in ItemIds : items[k].need > 0) =>
       \A j \in ItemIds : items[j].pc = "done" /\ items[j].out # "none"

\* a run has ended in which an item hit the longest flood wait and a later
\* item of the run was updated
C8_Witness ==
  /\ run.pc = "idle"
  /\ \E k, j \in ItemIds :
       /\ k < j
       /\ items[k].out = "floodWait" /\ items[k].need = MaxFlood
       /\ items[j].out = "success"

\* C9: at most one run is in progress at any time, and a call of
\* performUpdate made while a run is in progress changes nothing: no query
\* is sent, nothing of the run in progress is touched and nothing is left
\* behind that would start a run later.
C9_SingleRun ==
  /\ [](activeRuns <= 1 /\ (isUpdating <=> activeRuns = 1))
  /\ [][(isUpdating /\ lastCall' # "none") =>
          /\ lastCall' = "skipped"
          /\ UNCHANGED <<isUpdating, run, items, cachedDialogs, dialogsAge, stats,
                         callsLeft, activeRuns, detections, insightHistories>>]_vars

\* performUpdate was called while the rows of a run are being processed
C9_Witness ==
  /\ lastCall = "skipped"
  /\ isUpdating /\ run.pc = "batch"

\* C10: the rows in progress all belong to the batch in progress, which has
\* at most batchSize rows; no row of a later batch has started before every
\* row of the batches before it has settled; at the end of the run every
\* row has settled, whatever happened to the other rows of its batch.
C10_BatchesSequential ==
  /\ \A j, k \in ItemIds :
       (BatchOf(j) < BatchOf(k) /\ items[k].pc # "wait") => items[j].pc = "done"
  /\ Cardinality({k \in ItemIds : items[k].pc \notin {"wait", "done"}})
       <= batchSize
  /\ run.pc \in {"report", "idle"} => \A k \in ItemIds : items[k].pc = "done"

\* a row of the second batch has started after a row of the first batch
\* failed and the other row of that batch was updated
C10_Witness ==
  \E j, k, l \in ItemIds :
    /\ BatchOf(j) = 0 /\ BatchOf(l) = 0 /\ BatchOf(k) = 1
    /\ items[j].out = "error" /\ items[l].out = "success"
    /\ items[k].pc \notin {"wait", "done"}

(* ------------------- properties of the Storage Gateway ------------------ *)
\* the connections out of the pool that were handed over for requests and
\* have not been released or destroyed
Holding == (IF exec.conn THEN 1 ELSE 0) + leaked

\* no request is queued, in execution or between two items of the queue
AllFinished == queryQueue = <<>> /\ exec.pc = "none" /\ ~isProcessingQueue

\* C12: every connection the pool hands over for a request is released on
\* every exit path of the request, the elapsed checkout wait included: a
\* request that is over holds no connection, and once all requests are
\* over no connection handed over for a request is still out of the pool.
C12_ConnectionsReleased ==
  /\ exec.pc \in {"none", "checkout"} => ~exec.conn
  /\ AllFinished => Holding = 0

\* C13: a request is handed to executeQuery at most maxRetries + 1 times
\* (maxRetries is 3 unless the call gives another); the wait after the k-th
\* connection-class failure (k = 0, 1, ...) is 1000, 2000, 4000, 8000 and
\* then 10000 ms; every retry uses up one of the retries, and a request is
\* rejected with the connection-class error only when none is left.
C13_BoundedRetries ==
  /\ [](exec.pc # "none" =>
          /\ exec.maxRetries \in {1, 3, 5}
          /\ exec.kind = "ping" => exec.maxRetries = 1
          /\ exec.retries <= exec.maxRetries
          /\ exec.waits = SubSeq(<<1000, 2000, 4000, 8000, 10000>>, 1, exec.retries))
  /\ [][/\ (exec.pc = "backoff" /\ exec'.pc = "checkout") =>
             exec'.retries = exec.retries + 1
        /\ \A i \in 1..Len(settled') :
             settled'[i].outcome = "connection" =>
               /\ exec.retries = exec.maxRetries
               /\ settled'[i].attempts = exec.maxRetries + 1
               /\ settled'[i].waits = exec.waits
               /\ settled'[i].kind = "query" => settled'[i].threw]_vars

\* a query given five retries was rejected after the sixth attempt failed,
\* the fifth wait being the capped one
C13_Witness ==
  \E i \in 1..Len(settled) :
    /\ settled[i].outcome = "connection" /\ settled[i].threw
    /\ settled[i].attempts = 6
    /\ settled[i].waits = <<1000, 2000, 4000, 8000, 10000>>

\* C14: an error of connection.execute that is not connection-class is
\* thrown to the caller by the attempt that raised it: the catch clause
\* never awaits a backoff timer for it, and when no connection-class failure
\* came before, the request has been attempted exactly once.
C14_SemanticNotRetried ==
  /\ [](exec.pc = "backoff" => exec.err = "connection")
  /\ [][\A i \in 1..Len(settled') :
           settled'[i].outcome = "semantic" =>
             /\ exec.pc = "execute" /\ exec'.pc = "none"
             /\ settled'[i].threw \/ settled'[i].kind # "query"
             /\ settled'[i].attempts = exec.retries + 1
             /\ settled'[i].waits = exec.waits
             /\ exec.retries = 0 =>
                  settled'[i].attempts = 1 /\ settled'[i].waits = <<>>]_vars

\* a query was rejected with an SQL error after its only attempt
C14_Witness ==
  \E i \in 1..Len(settled) :
    /\ settled[i].outcome = "semantic" /\ settled[i].threw
    /\ settled[i].attempts = 1 /\ settled[i].waits = <<>>

\* C15: insertData and updateData called with a table outside the allow-list
\* or with an empty data object, and updateData called with an empty
\* condition, throw at once: nothing is enqueued or executed, no connection
\* is asked for, nothing is retried, and the work queue and the store are
\* as they were.
C15_RejectedAtOnce ==
  [][(/\ called'.kind \in {"insert", "update"}
      /\ \/ called'.table \notin {"detections", "insightHistories", "pushList",
                                  "campaigns", "media", "contents",
                                  "campaignContents"}
         \/ ~called'.data
         \/ called'.kind = "update" /\ ~called'.cond)
     => /\ Len(settled') = 1
        /\ settled'[1].no = madeCalls' /\ settled'[1].threw
        /\ settled'[1].attempts = 0 /\ settled'[1].waits = <<>>
        /\ UNCHANGED <<queryQueue, isProcessingQueue, delaying, exec, pool,
                       abandoned, leaked, orphans, detections,
                       insightHistories>>]_vars

\* updateData for an allowed table with data and an empty condition threw
\* while a request was in execution and another was queued
C15_Witness ==
  /\ called.kind = "update" /\ called.table = "detections"
  /\ called.data /\ ~called.cond
  /\ Len(settled) = 1 /\ settled[1].threw /\ settled[1].attempts = 0
  /\ exec.pc = "execute" /\ queryQueue # <<>>

\* C16: a request that has been in the queue for longer than the staleness
\* threshold when processQueue takes it out is rejected with the queue
\* timeout and is never handed to executeQuery; a request handed to
\* executeQuery was not older than the threshold; and the loop goes on with
\* the items behind a rejected one.
C16_StaleRejected ==
  [][/\ \A i \in 1..Len(settled') :
          settled'[i].outcome = "queue-timeout" =>
            /\ settled'[i].attempts = 0
            /\ settled'[i].threw \/ settled'[i].kind # "query"
            /\ exec'.no # settled'[i].no
            /\ \E k \in 1..Len(queryQueue) :
                  /\ queryQueue[k].no = settled'[i].no
                  /\ queryQueue[k].age > staleAfter
                  \* and what was behind it is settled, in execution or
                  \* still queued
                  /\ \A m \in (k + 1)..Len(queryQueue) :
                        \/ \E j \in 1..Len(settled') :
                              settled'[j].no = queryQueue[m].no
                        \/ exec'.no = queryQueue[m].no
                        \/ \E j \in 1..Len(queryQueue') :
                              queryQueue'[j].no = queryQueue[m].no
     /\ \A k \in 1..Len(queryQueue) :
          (exec'.no = queryQueue[k].no /\ exec.no # exec'.no) =>
            queryQueue[k].age <= staleAfter]_vars

\* the item at the head of the queue was rejected as too old and the item
\* behind it, which was not, went into execution in the same step
C16_Witness ==
  /\ Len(settled) = 1 /\ settled[1].outcome = "queue-timeout"
  /\ settled[1].attempts = 0
  /\ exec.pc = "checkout" /\ exec.no > settled[1].no

\* C17: the work queue never holds more than maxQueueSize items; a call of
\* query() that finds the queue full removes the item at its head, the
\* oldest, and appends the new item behind the others, which stay as they
\* are; a call that finds room removes nothing.
C17_QueueBounded ==
  /\ [](Len(queryQueue) <= maxQueueSize)
  /\ [][(/\ madeCalls' = madeCalls + 1
         /\ isProcessingQueue
         /\ \E j \in 1..Len(queryQueue') : queryQueue'[j].no = madeCalls')
         => /\ queryQueue'[Len(queryQueue')].no = madeCalls'
            /\ SubSeq(queryQueue', 1, Len(queryQueue') - 1) =
                 IF Len(queryQueue) >= maxQueueSize
                 THEN Tail(queryQueue) ELSE queryQueue
            /\ Len(orphans') = Len(orphans) +
                 (IF Len(queryQueue) >= maxQueueSize THEN 1 ELSE 0)]_vars

\* a call found the queue full: the oldest item is gone and the queue holds
\* maxQueueSize items again, the new one last
C17_Witness ==
  /\ called # NoRequest /\ pool = "open"
  /\ Len(queryQueue) = maxQueueSize
  /\ queryQueue[Len(queryQueue)].no = madeCalls
  /\ orphans # <<>>
  /\ \A j \in 1..Len(queryQueue) : orphans[Len(orphans)].no < queryQueue[j].no

\* C18: a transaction() call that got its connection and began: when the
\* callback returns and the commit succeeds, the call has committed and
\* returns; when the callback or the commit fails, the call has rolled back
\* and throws that failure; exactly one of commit and rollback has taken
\* effect; and on every path the connection has been released once.
C18_CommitOrRollback ==
  txDone.done =>
    /\ txDone.had => txDone.released = 1
    /\ txDone.failure = "none" =>
         txDone.committed /\ ~txDone.rolledBack /\ txDone.thrown = "none"
    /\ txDone.failure \in {"fn", "commit"} =>
         /\ txDone.rolledBack /\ ~txDone.committed
         /\ txDone.thrown = txDone.failure

\* C19: ping() never throws and always completes with a boolean, true only
\* when the liveness query gave its row: every ping that has ended returned
\* true after rows and false after anything else, and no ping is left with
\* its request out of the queue and its promise unsettled.
C19_PingBoolean ==
  /\ \A i \in 1..Len(settled) :
       settled[i].kind = "ping" =>
         /\ ~settled[i].threw
         /\ settled[i].value \in BOOLEAN
         /\ settled[i].value <=> settled[i].outcome = "rows"
  /\ \A i \in 1..Len(orphans) : orphans[i].kind # "ping"

(* ------------------- properties of the membership cache ---------------- *)
\* getDialogs ends a refresh that failed while the cache held dialogs
RefreshFailedOnCache ==
  /\ run.pc = "dialogs"
  /\ run'.pc # "dialogs"
  /\ run'.refresh = "failed"
  /\ Len(cachedDialogs) > 0

\* C20: when the membership cache holds a non-empty last-good set and the
\* refresh from the platform fails, getDialogs returns that set, not an
\* empty one, and the set stays in the cache for later calls.
C20_LastGoodKept ==
  [][RefreshFailedOnCache =>
       /\ run'.dialogsSet = Range(cachedDialogs)
       /\ cachedDialogs' = cachedDialogs]_vars

(* ------------------- properties of the health checks ------------------- *)
\* C21: when the database is out of reach for good, the health checks count
\* as failed and after a bounded number of them in a row the checker
\* escalates (alert, restart): no checker ends more than
\* maxHealthCheckFailures checks in a row with the database out of reach
\* and no restart.
C21_Escalates ==
  \A w \in Checkers : streak[w] <= maxHealthCheckFailures

(* ------------------- properties of the store --------------------------- *)
\* the rows of table before a step are the first rows of table after it
Extends(after, before) ==
  /\ Len(after) >= Len(before)
  /\ SubSeq(after, 1, Len(before)) = before

C23_NotConnected ==
  \A i \in 1..Len(settled) :
    (settled[i].kind # "ping" /\ settled[i].outcome = "no-pool") =>
      settled[i].threw /\ ~settled[i].empty

(* ------------------- properties of the matching rule ------------------- *)
\* C24: a placement with an edited-message id set is reported only when the
\* origin message id is in that set and the origin channel is the
\* placement's edited channel (or, lacking one, the Content's forward-origin
\* channel): a forward from another origin channel that reuses an edited id
\* is no match.
C24_EditedChannelRule ==
  (lastLookup.kind = "db" /\ lastLookup.detected) =>
    LET r == PushRow(lastLookup.pushId)
    IN r.editedContentMessageIds.kind = "array" =>
         /\ lastLookup.fromMsg \in Range(r.editedContentMessageIds.ids)
         /\ lastLookup.fromCh = cleanChannelId(searchingChannelId(r))

\* C25: whenever a lookup for an event observed in channel C reports a
\* placement, from the database or from the Match Cache, that placement is
\* an active placement whose Media is channel C.
C25_PlacementOfObservedChannel ==
  (lastLookup.kind \in {"db", "hit"} /\ lastLookup.detected) =>
    IsActiveFor(PushRow(lastLookup.pushId), cleanChannelId(lastLookup.ch))

\* C26: a placement lookup whose database query failed is not stored in the
\* Match Cache as detected:false, so the next lookup for the same origin
\* queries the database again.
C26_FailureNotCached ==
  (lastLookup.kind = "db" /\ ~lastLookup.dbok) =>
    /\ ~lastLookup.stored
    /\ ~CacheFresh(queryCache, <<lastLookup.fromCh, lastLookup.fromMsg>>)

(* ------------------- properties of the work queue ---------------------- *)
\* C27: every promise query() returned settles, the one of a request removed
\* from the work queue included: no request leaves the queue without its
\* resolve or reject having been called (once out of the queue nothing holds
\* them any more).
C27_EverySettles == orphans = <<>>

\* the processQueue loop is between its start and its end
LoopActive == exec.pc # "none" \/ delaying

\* C28: the work queue has one consumer and is first-in first-out: a
\* processQueue loop is at an await only while isProcessingQueue is set, the
\* queue holds the requests in the order of their calls, all of them called
\* after the request in execution, and executeQuery starts for a request
\* only when no request is in execution, for the oldest request of the
\* queue that is not rejected as stale.
C28_SingleConsumerFifo ==
  /\ [](LoopActive => isProcessingQueue)
  /\ [](\A i, j \in 1..Len(queryQueue) :
          i < j => queryQueue[i].no < queryQueue[j].no)
  /\ [](exec.pc # "none" =>
          \A i \in 1..Len(queryQueue) : exec.no < queryQueue[i].no)
  /\ [][(exec'.pc # "none" /\ exec'.no # exec.no) =>
          /\ exec.pc = "none"
          /\ \A i \in 1..Len(queryQueue) :
               queryQueue[i].no < exec'.no => Stale(queryQueue[i])]_vars

\* the second request is in execution after the first one ended, and a
\* request called while the loop was active waits behind it
C28_Witness ==
  /\ exec.pc = "checkout" /\ exec.no = 2
  /\ Len(queryQueue) >= 1
  /\ isProcessingQueue

(* ------------------- properties of the reconciliation run -------------- *)
\* C29: every reconciliation run returns the engine to Idle: whenever
\* isUpdating is set, it is cleared again later, so that a later timer tick
\* can start a new run.
C29_ReturnsToIdle == isUpdating ~> ~isUpdating

\* C30: in every reconciliation run the number of items marked updated is
\* the number of InsightHistory rows the run appended, and an item counts as
\* updated only if its row was inserted.
C30_UpdatedCount ==
  run.no > 0 =>
    /\ run.updatedCount
         = Cardinality({i \in 1..Len(insightHistories) :
                          insightHistories[i].run = run.no})
    /\ \A k \in ItemIds :
         items[k].out = "success" =>
           Cardinality(RowsOfRun(run.results[k].pushId)) = 1

\* C31: the run's error counter is the number of rows of the run whose
\* processing ended with an error other than the flood wait and the private
\* channel: it counts each such row once, and counts no row that was skipped
\* as not-member, had no PLACEMENT detection, met a flood wait or met a
\* private channel
ErrorRows == {k \in ItemIds : items[k].pc = "done" /\ items[k].out = "error"}
C31_ErrorCount == run.errorCount = Cardinality(ErrorRows)

\* C32: a row whose snapshot fetch ended with the private channel signal
\* has its channel in the run's not-member list, the list the report is
\* written from, with the placement among the affected ones
C32_PrivateReported ==
  \A k \in ItemIds :
    items[k].pc = "done" /\ items[k].out = "private" =>
      \E n \in 1..Len(run.notMemberChannels) :
        /\ run.notMemberChannels[n].id = AddPrefix(run.results[k].mediaIdentifier)
        /\ run.results[k].pushId \in Range(run.notMemberChannels[n].pushIds)

(* ------------------- properties of the bounded memories ---------------- *)
\* the keys of the cache
CacheKeys(cache) == {cache[i].key : i \in 1..Len(cache)}

\* C33: the Match Cache never holds more than maxCacheSize entries; a step
\* that evicts entries leaves no entry behind whose age has reached the TTL,
\* and evicts no unexpired entry while it keeps an older one
C33_CacheBounded ==
  /\ [](Len(queryCache) <= maxCacheSize)
  /\ [][\A i \in 1..Len(queryCache) :
          queryCache[i].key \notin CacheKeys(queryCache') =>
            \A j \in 1..Len(queryCache) :
              queryCache[j].key \in CacheKeys(queryCache') =>
                /\ queryCache[j].age < CACHE_TTL
                /\ queryCache[i].age < CACHE_TTL =>
                     queryCache[j].age <= queryCache[i].age]_vars

\* C34: a lookup that finds an entry of its key whose age has reached the TTL
\* does not return it: it queries the database once and leaves the entry of
\* the key holding the result of that query with a new timestamp
C34_ExpiredNotReturned ==
  (lastLookup.kind \in {"db", "hit"} /\ lastLookup.expired) =>
    /\ lastLookup.kind = "db"
    /\ lastLookup.calls = 1
    /\ lastLookup.stored

\* the second lookup for an origin, one TTL after the first
C34_Witness ==
  /\ lastLookup.kind = "db" /\ lastLookup.expired
  /\ lastLookup.stored /\ lastLookup.calls = 1

\* C35: the dedup set never holds more than maxProcessedMessages keys; an
\* insert that finds the set at its cap leaves the newest half of the keys,
\* in their order, followed by the new key: the oldest half is gone in one
\* eviction and every key of the newest half is still in the set
C35_DedupBounded ==
  /\ [](Len(processedMessages) <= maxProcessedMessages)
  /\ [][(/\ Len(processedMessages) >= maxProcessedMessages
          /\ processedMessages' # processedMessages) =>
            \E key \in Keys \ Range(processedMessages) :
              processedMessages' =
                Append(SliceLast(processedMessages, maxProcessedMessages \div 2),
                       key)]_vars

(* ------------------- properties of the matching loop ------------------- *)
\* the candidate rows whose edited-message list is NULL or parses
WellFormed(rows) ==
  SelectSeq(rows, LAMBDA r : r.editedContentMessageIds.kind # "bad")

\* C36: a candidate row whose edited-message list does not parse is skipped
\* and nothing more: a lookup whose query succeeded reports a detection
\* exactly when one of the other candidate rows matches, also when that row
\* comes after the malformed one, and never reports the malformed row
C36_MalformedRowSkipped ==
  (lastLookup.kind = "db" /\ lastLookup.dbok) =>
    LET fi == [fromCh |-> lastLookup.fromCh, fromMsg |-> lastLookup.fromMsg]
        rows == WellFormed(ActiveRows(cleanChannelId(lastLookup.ch)))
    IN /\ lastLookup.detected =
            \E i \in 1..Len(rows) : Matches(matcher, rows[i], fi)
       /\ lastLookup.detected =>
            PushRow(lastLookup.pushId).editedContentMessageIds.kind # "bad"

\* the lookup for the post of channel 7777 forwarded from message 205 of
\* channel 5552: placement 6 is skipped, placement 7 matches
C36_Witness ==
  /\ lastLookup.kind = "db" /\ lastLookup.dbok
  /\ lastLookup.detected /\ lastLookup.pushId = 7
  /\ \E i \in 1..Len(ActiveRows(cleanChannelId(lastLookup.ch))) :
       /\ ActiveRows(cleanChannelId(lastLookup.ch))[i].editedContentMessageIds.kind = "bad"
       /\ ActiveRows(cleanChannelId(lastLookup.ch))[i].pushId < lastLookup.pushId

(* ------------------- properties of the life cycles --------------------- *)
\* C37: initialize() of the engine never runs twice at the same time, and
\* at most one event handler and one health-check timer are live
C37_OneInitialize ==
  /\ service.initializing <= 1
  /\ service.handlers <= 1
  /\ service.timers <= 1

\* C39: a check that passes leaves the failure counter at 0, and the engine
\* is restarted by its health check only after maxHealthCheckFailures
\* checks in a row have failed, counted anew after an earlier restart
C39_ConsecutiveFailures ==
  /\ service.row = 0 /\ service.restarts = 0 => service.healthCheckFailures = 0
  /\ service.restarts > 0 => service.restartedAfter >= maxHealthCheckFailures

\* Observer at rest with nothing left that could wake it: no call chain in
\* progress, no health-check timer, not running, not restarting, not
\* shutting down, and the process alive
Idle(ob) ==
  /\ ob.chains = <<>> /\ ~ob.exited
  /\ ~ob.isRunning /\ ~ob.isRestarting /\ ~ob.shutdownInProgress
  /\ ~ob.healthCheckInterval

\* C38: restartAttempts counts the restarts that failed in a row, so that an
\* application that keeps failing to start ends in process.exit after at
\* most maxRestartAttempts attempts, and Observer never comes to rest not
\* running, not restarting, not shutting down and without a health-check
\* timer
C38_ExitsOrRuns ==
  /\ observer.restartAttempts <= maxRestartAttempts
  /\ observer.restartAttempts >= observer.failedRestarts
  /\ ~Idle(observer)

\* C40: a call of connect() makes at most maxRetries + 1 attempts, waits
\* retryDelay between two of them, and when it throws isConnected is false
C40_ConnectBounded ==
  /\ \A c \in ConnectCalls :
       /\ connecting.calls[c].attempts <= maxRetries + 1
       /\ connecting.calls[c].pc = "delay" => connecting.calls[c].delay = retryDelay
  /\ connecting.done.attempts <= maxRetries + 1
  /\ connecting.done.outcome = "throws" => ~connecting.done.isConnected

====
